---- MODULE Spec2Model ----
(***************************************************************************)
(* Credential proxy server: session store, credential store, the session   *)
(* and proxy routes of server/proxy_server.py, the transparent forwarder   *)
(* of server/proxy.py and the Gmail endpoint filter of                      *)
(* server/service_filters.py.                                               *)
(*                                                                         *)
(* Every route handler is one atomic action.  Time is counted in minutes.  *)
(* Strings that the code inspects character by character (proxy paths)     *)
(* are sequences of one-character strings; strings that are only compared  *)
(* for equality (service names, header values, methods) are TLA+ strings.  *)
(***************************************************************************)
EXTENDS Integers, Sequences, FiniteSets, TLC

(***************************************************************************)
(* Bounds of the model                                                     *)
(***************************************************************************)
MaxSessions == 2
MaxTicks == 2
MaxEdits == 1
MaxCallers == 5
MaxThreads == 3
MaxHandlers == 2

(***************************************************************************)
(* Program constants                                                       *)
(***************************************************************************)
MIN_TTL == 1
MAX_TTL == 480
DEFAULT_TTL == 30

SECRET_KEY == "test-secret-key"

\* A header that the request does not carry (request.headers.get -> None).
NoHeader == "<absent>"

\* Python's None as the result of a lookup.
None == "<None>"

\* Session ids are opaque random strings; the k-th id generated is SidNames[k].
SidNames == <<"sid-1", "sid-2", "sid-3", "sid-4">>

\* An id that secrets.token_urlsafe never generated.
UnknownSid == "nonexistent"

Sids == {SidNames[k] : k \in 1..MaxSessions}

(***************************************************************************)
(* Character-level strings                                                 *)
(***************************************************************************)
W == [gmail       |-> <<"g","m","a","i","l">>,
      v1          |-> <<"v","1">>,
      users       |-> <<"u","s","e","r","s">>,
      me          |-> <<"m","e">>,
      messages    |-> <<"m","e","s","s","a","g","e","s">>,
      threads     |-> <<"t","h","r","e","a","d","s">>,
      drafts      |-> <<"d","r","a","f","t","s">>,
      labels      |-> <<"l","a","b","e","l","s">>,
      profile     |-> <<"p","r","o","f","i","l","e">>,
      history     |-> <<"h","i","s","t","o","r","y">>,
      settings    |-> <<"s","e","t","t","i","n","g","s">>,
      send        |-> <<"s","e","n","d">>,
      batchDelete |-> <<"b","a","t","c","h","D","e","l","e","t","e">>,
      import      |-> <<"i","m","p","o","r","t">>,
      modify      |-> <<"m","o","d","i","f","y">>,
      batchModify |-> <<"b","a","t","c","h","M","o","d","i","f","y">>,
      trash       |-> <<"t","r","a","s","h">>,
      untrash     |-> <<"u","n","t","r","a","s","h">>,
      xrpc        |-> <<"x","r","p","c">>,
      feed        |-> <<"f","e","e","d">>,
      gmail_      |-> <<"g","m","a","i","l","_">>,
      bsky        |-> <<"b","s","k","y">>,
      git         |-> <<"g","i","t">>,
      nope        |-> <<"n","o","p","e">>,
      batch       |-> <<"b","a","t","c","h">>,
      v2          |-> <<"v","2">>,
      id          |-> <<"1","8","c">>,
      filters     |-> <<"f","i","l","t","e","r","s">>,
      unknownResource |-> <<"u","n","k","n","o","w","n","R","e","s","o","u","r","c","e">>]

\* "/".join(segs)
RECURSIVE Join(_)
Join(segs) ==
    IF Len(segs) = 0 THEN <<>>
    ELSE IF Len(segs) = 1 THEN segs[1]
    ELSE segs[1] \o <<"/">> \o Join(Tail(segs))

\* s.split("/"): the pieces between slashes, empty pieces included.
RECURSIVE SplitFrom(_, _, _)
SplitFrom(s, i, cur) ==
    IF i > Len(s) THEN <<cur>>
    ELSE IF s[i] = "/" THEN <<cur>> \o SplitFrom(s, i + 1, <<>>)
    ELSE SplitFrom(s, i + 1, Append(cur, s[i]))

Split(s) == SplitFrom(s, 1, <<>>)

\* s.startswith(p)
StartsWith(s, p) == Len(s) >= Len(p) /\ SubSeq(s, 1, Len(p)) = p

\* sub in s
Contains(s, sub) ==
    \E i \in 1..(Len(s) - Len(sub) + 1) : SubSeq(s, i, i + Len(sub) - 1) = sub

\* The characters of a service name.
ServiceChars(service) ==
    CASE service = "gmail" -> W.gmail
      [] service = "bsky"  -> W.bsky
      [] service = "git"   -> W.git
      [] service = "gmail_work" -> W.gmail_ \o <<"w","o","r","k">>
      [] OTHER             -> W.nope

(***************************************************************************)
(* Variables                                                               *)
(***************************************************************************)
VARIABLES
    sessions,     \* SessionStore: session id -> [services, created_at, expires_at]
    next_sid,     \* how many session ids have been generated, plus one
    now,          \* the wall clock, in minutes
    ticks,        \* how many times the clock has advanced
    credentials,  \* CredentialStore._credentials: the loaded service names
    last_mtime,   \* CredentialStore._last_mtime
    file,         \* credentials.json: whether it exists and is JSON, and its entries
    file_mtime,   \* modification time of credentials.json
    expired_cb,   \* audit log: session_expired events per session id
    created,      \* history: session id -> the session as it was created
    revoked,      \* history: ids for which SessionStore.revoke returned True
    last,         \* the request handled by the latest step and its response
    cred,         \* one ServiceCredential: its token cache, lock and callers
    tmp,          \* the temporary files and directories now on disk
    thr           \* the server's locks and the threads of concurrent requests

vars == <<sessions, next_sid, now, ticks, credentials, last_mtime, file,
          file_mtime, expired_cb, created, revoked, last, cred, tmp, thr>>

(***************************************************************************)
(* Session and SessionStore                                                *)
(***************************************************************************)
Remove(S, sid) == [k \in (DOMAIN S) \ {sid} |-> S[k]]

\* Session.is_expired
is_expired(session, t) == t > session.expires_at

\* Session.has_service
session_has_service(session, service) == service \in session.services

NoneFired == [k \in Sids |-> 0]

\* SessionStore.create
store_create(S, sid, services, ttl_minutes, t) ==
    [k \in (DOMAIN S) \cup {sid} |->
        IF k = sid
        THEN [services |-> services, created_at |-> t, expires_at |-> t + ttl_minutes]
        ELSE S[k]]

\* A get that reports an expired session but leaves it in the store.
store_get_keeps(S, sid, t) ==
    IF sid \notin DOMAIN S
    THEN [sessions |-> S, fired |-> NoneFired, found |-> FALSE]
    ELSE IF is_expired(S[sid], t)
    THEN [sessions |-> S,
          fired |-> [NoneFired EXCEPT ![sid] = 1],
          found |-> FALSE]
    ELSE [sessions |-> S, fired |-> NoneFired, found |-> TRUE]

\* SessionStore.get: lazy expiry sweep
store_get(S, sid, t) ==
    IF sid \notin DOMAIN S
    THEN [sessions |-> S, fired |-> NoneFired, found |-> FALSE]
    ELSE IF is_expired(S[sid], t)
    THEN [sessions |-> Remove(S, sid),
          fired |-> [NoneFired EXCEPT ![sid] = 1],
          found |-> FALSE]
    ELSE [sessions |-> S, fired |-> NoneFired, found |-> TRUE]

\* has_service that answers for the session alone, whatever the service.
store_has_service_any(S, sid, service, t) ==
    LET g == store_get(S, sid, t)
    IN  [sessions |-> g.sessions, fired |-> g.fired, result |-> g.found]

\* SessionStore.has_service
store_has_service(S, sid, service, t) ==
    LET g == store_get(S, sid, t)
    IN  [sessions |-> g.sessions, fired |-> g.fired,
         result |-> g.found /\ session_has_service(S[sid], service)]

\* SessionStore.revoke
store_revoke(S, sid) ==
    [sessions |-> IF sid \in DOMAIN S THEN Remove(S, sid) ELSE S,
     result |-> sid \in DOMAIN S]

\* SessionStore.cleanup_expired
cleanup_expired(S, t) ==
    LET gone == {k \in DOMAIN S : is_expired(S[k], t)}
    IN  [sessions |-> [k \in (DOMAIN S) \ gone |-> S[k]],
         fired |-> [k \in Sids |-> IF k \in gone THEN 1 ELSE 0],
         result |-> Cardinality(gone)]

\* The on_session_expired callback: audit_log.session_expired(sid)
on_session_expired(log, fired) == [k \in Sids |-> log[k] + fired[k]]

\* How many callbacks one store call invoked.
CallbackCount(fired) == Cardinality({k \in Sids : fired[k] > 0})

(***************************************************************************)
(* CredentialStore                                                         *)
(***************************************************************************)
\* An entry of credentials.json: whether its value is a JSON object, whether
\* it gives base_url, the "type" it gives ("" for none), and which of the keys
\* that decide the inferred type it holds. PlainEntry is an entry of a known
\* service with its secrets only.
PlainEntry == [dict |-> TRUE, base_url |-> FALSE, type |-> "", keys |-> {}]

\* KNOWN_SERVICES: the type of each known service.
KNOWN_SERVICES ==
    [bsky |-> "atproto", github_api |-> "bearer", gmail |-> "oauth2",
     gcal |-> "oauth2", gdrive |-> "oauth2"]

\* A resolution in which the name of a known service comes before the type
\* the entry gives.
service_type_known_first(name, config) ==
    IF name \in DOMAIN KNOWN_SERVICES THEN KNOWN_SERVICES[name]
    ELSE IF config.type # "" THEN config.type
    ELSE IF config.keys \cap {"identifier", "app_password"} # {} THEN "atproto"
    ELSE IF "refresh_token" \in config.keys THEN "oauth2"
    ELSE IF config.keys \cap {"token", "credential"} # {} THEN "bearer"
    ELSE ""

\* service_type in _parse_service_config: config.get("type") or
\* known.get("type"), else inferred from the keys; "" when it cannot be
\* inferred.
service_type(name, config) ==
    IF config.type # "" THEN config.type
    ELSE IF name \in DOMAIN KNOWN_SERVICES THEN KNOWN_SERVICES[name]
    ELSE IF config.keys \cap {"identifier", "app_password"} # {} THEN "atproto"
    ELSE IF "refresh_token" \in config.keys THEN "oauth2"
    ELSE IF config.keys \cap {"token", "credential"} # {} THEN "bearer"
    ELSE ""

\* CredentialStore._parse_service_config: a ServiceCredential ("cred"), None
\* ("none") or an exception ("raise")
parse_service_config(name, config) ==
    LET known == name \in DOMAIN KNOWN_SERVICES
    IN  IF ~config.dict THEN "raise"
        ELSE IF ~(config.base_url \/ known) THEN "none"
        ELSE IF service_type(name, config) \in {"atproto", "bearer", "header",
                                                "query", "oauth2"}
        THEN "cred"
        ELSE "none"

\* A _load that gives up at the first entry that raises.
load_abort_on_error(content) ==
    IF ~content.json THEN {}
    ELSE IF \E name \in DOMAIN content.entries :
               parse_service_config(name, content.entries[name]) = "raise"
    THEN {}
    ELSE {name \in DOMAIN content.entries :
            parse_service_config(name, content.entries[name]) = "cred"}

\* CredentialStore.reload with _load: the names in _credentials afterwards.
\* A file that is not JSON, or an entry that raises or gives None, is logged.
load(content) ==
    IF ~content.json THEN {}
    ELSE {name \in DOMAIN content.entries :
            parse_service_config(name, content.entries[name]) = "cred"}

\* A check that never finds the file changed.
check_reload_never(creds, mtime) ==
    [credentials |-> creds, last_mtime |-> mtime]

\* A check that takes a file it cannot stat for a changed one.
check_reload_missing_reloads(creds, mtime) ==
    IF ~file.exists
    THEN [credentials |-> {}, last_mtime |-> mtime]
    ELSE IF file_mtime # mtime
    THEN [credentials |-> load(file), last_mtime |-> file_mtime]
    ELSE [credentials |-> creds, last_mtime |-> mtime]

\* CredentialStore._check_reload, with reload and _load. os.path.getmtime
\* raises OSError for a file that is not there.
check_reload(creds, mtime) ==
    IF ~file.exists
    THEN [credentials |-> creds, last_mtime |-> mtime]
    ELSE IF file_mtime # mtime
    THEN [credentials |-> load(file), last_mtime |-> file_mtime]
    ELSE [credentials |-> creds, last_mtime |-> mtime]

\* The token a caller gets when none is available (None).
NoToken == 0

\* An empty cache (_oauth2_token / _atproto_session is None).
NoCache == [token |-> NoToken, expires_at |-> 0]

\* A reload that keeps the ServiceCredential objects it already has.
reload_credential_kept(c, mtime) ==
    IF file.exists /\ file_mtime # mtime
    THEN [c EXCEPT !.floor = c.minted,
                   !.pc = [k \in DOMAIN c.pc |->
                             IF c.pc[k] \in {"waiting", "refreshing", "creating"}
                             THEN "detached" ELSE c.pc[k]]]
    ELSE c

\* What _check_reload does to a ServiceCredential: reload clears _credentials
\* and _load builds every object anew, with no cached token and a lock of its
\* own. floor is the last token minted for the objects thrown away. A thread
\* that is inside inject_auth of the old object goes on with the old object
\* (detached): nothing it does reaches the new one.
reload_credential(c, mtime) ==
    IF file.exists /\ file_mtime # mtime
    THEN [c EXCEPT !.cache = NoCache, !.lock = 0, !.floor = c.minted,
                   !.pc = [k \in DOMAIN c.pc |->
                             IF c.pc[k] \in {"waiting", "refreshing", "creating"}
                             THEN "detached" ELSE c.pc[k]]]
    ELSE c

\* CredentialStore.list_services (the names, as a set)
cs_list_services(creds, mtime) == check_reload(creds, mtime).credentials

\* CredentialStore.get(service) is not None
cs_has(creds, mtime, service) == service \in check_reload(creds, mtime).credentials

(***************************************************************************)
(* proxy_server.py: authentication helpers                                 *)
(***************************************************************************)
\* verify_auth: "if not auth_header: return False", then hmac.compare_digest
verify_auth(auth_header) ==
    /\ auth_header # NoHeader
    /\ auth_header # ""
    /\ auth_header = SECRET_KEY

\* A check that trusts any X-Session-Id header without asking the store.
verify_session_or_key_any_id(S, sid_hdr, key_hdr, service, t) ==
    LET try_session == sid_hdr # NoHeader /\ sid_hdr # ""
    IN  [sessions |-> S,
         fired |-> NoneFired,
         auth_type |-> IF try_session THEN "session"
                       ELSE IF verify_auth(key_hdr) THEN "legacy_key"
                       ELSE None]

\* verify_session_or_key(service): the session store after the lookup and the
\* auth type ("session", "legacy_key" or None)
verify_session_or_key(S, sid_hdr, key_hdr, service, t) ==
    LET try_session == sid_hdr # NoHeader /\ sid_hdr # ""
        h == IF try_session
             THEN store_has_service(S, sid_hdr, service, t)
             ELSE [sessions |-> S, fired |-> NoneFired, result |-> FALSE]
    IN  [sessions |-> h.sessions,
         fired |-> h.fired,
         auth_type |-> IF h.result THEN "session"
                       ELSE IF verify_auth(key_hdr) THEN "legacy_key"
                       ELSE None]

(***************************************************************************)
(* Request inputs                                                          *)
(***************************************************************************)
AuthKeys == {NoHeader, SECRET_KEY, "wrong-key"}

\* X-Session-Id values a client can send: none, a made-up id, an id it was given.
SidHeaders == {NoHeader, UnknownSid} \cup {SidNames[k] : k \in 1..(next_sid - 1)}

\* Values of the JSON field ttl_minutes.
TtlInputs ==
    {[kind |-> "absent", v |-> 0], [kind |-> "text", v |-> 0],
     [kind |-> "null", v |-> 0], [kind |-> "inf", v |-> 0]}
    \cup {[kind |-> "int", v |-> n] : n \in {0, 2, 9999}}

\* Values of the JSON field services.
ServicesInputs ==
    {[kind |-> "absent", v |-> {}], [kind |-> "nonlist", v |-> {}],
     [kind |-> "unhashable", v |-> {}]}
    \cup {[kind |-> "list", v |-> l] :
            l \in {{}, {"git"}, {"bsky", "gmail"}, {"nope", "git"}}}

NoTtl == [kind |-> "none", v |-> 0]
NoServices == [kind |-> "none", v |-> {}]

\* A response record with nothing in it.
NoResp ==
    [op |-> "init", sid |-> NoHeader, key |-> NoHeader, service |-> "",
     method |-> "", path |-> <<>>, status |-> 0, handed |-> FALSE,
     upstream |-> FALSE, read_input |-> FALSE, result |-> FALSE,
     ttl_in |-> NoTtl, services_in |-> NoServices, expires_in |-> 0,
     new_sid |-> None, auth_type |-> None, fired |-> 0,
     caller |-> 0, calls |-> 0, saw |-> "", token |-> 0, refresh_failed |-> FALSE,
     headers |-> {}, up_headers |-> {}, body |-> {}, reason |-> "",
     inject |-> "", outcome |-> "", prefix |-> <<>>, segs |-> <<>>,
     dispatch |-> FALSE, protected |-> FALSE, why |-> "",
     input |-> [json |-> FALSE, repo_url |-> <<>>, branch |-> <<>>,
                bundle |-> FALSE, create_pr |-> FALSE],
     ran |-> {}, made |-> 0, pushed |-> FALSE, pr_created |-> FALSE,
     manual_pr_url |-> FALSE, cmd |-> <<>>, arg |-> <<>>, url |-> <<>>,
     injected |-> FALSE,
     credential |-> [service_type |-> "", credential |-> <<>>,
                     auth_header |-> "", query_param |-> <<>>],
     config |-> [dict |-> FALSE, base_url |-> FALSE, type |-> "", keys |-> {}]]

(***************************************************************************)
(* POST /sessions                                                          *)
(***************************************************************************)
\* int(x) of Python on a decoded JSON value
py_int(x) ==
    CASE x.kind = "int"  -> [exc |-> "none", v |-> x.v]
      [] x.kind = "text" -> [exc |-> "ValueError", v |-> 0]
      [] x.kind = "null" -> [exc |-> "TypeError", v |-> 0]
      [] x.kind = "inf"  -> [exc |-> "OverflowError", v |-> 0]

Min(a, b) == IF a < b THEN a ELSE b
Max(a, b) == IF a > b THEN a ELSE b

\* lines 142-146: data.get("ttl_minutes", 30), the clamp and its except clause
clamp_ttl(ttl_in) ==
    LET raw == IF ttl_in.kind = "absent"
               THEN [kind |-> "int", v |-> DEFAULT_TTL]
               ELSE ttl_in
        c == py_int(raw)
    IN  IF c.exc = "none"
        THEN [exc |-> "none", v |-> Max(MIN_TTL, Min(c.v, MAX_TTL))]
        ELSE IF c.exc \in {"TypeError", "ValueError"}
        THEN [exc |-> "none", v |-> DEFAULT_TTL]
        ELSE [exc |-> c.exc, v |-> 0]

\* "not services"
services_falsy(services_in) ==
    \/ services_in.kind = "absent"
    \/ services_in.kind = "list" /\ services_in.v = {}

\* create_session: the status, and the ttl when a session is to be created
create_session_outcome(key_hdr, services_in, ttl_in, available) ==
    LET ttl == clamp_ttl(ttl_in)
    IN  IF ~verify_auth(key_hdr) THEN [status |-> 401, ttl |-> 0]
        ELSE IF ttl.exc # "none" THEN [status |-> 500, ttl |-> 0]
        ELSE IF services_falsy(services_in) THEN [status |-> 400, ttl |-> 0]
        ELSE IF services_in.kind = "nonlist" THEN [status |-> 400, ttl |-> 0]
        ELSE IF services_in.kind = "unhashable" THEN [status |-> 500, ttl |-> 0]
        ELSE IF services_in.v \ available # {} THEN [status |-> 400, ttl |-> 0]
        ELSE [status |-> 200, ttl |-> ttl.v]

CreateSession(key_hdr, services_in, ttl_in) ==
    LET reach_list == verify_auth(key_hdr)
                      /\ clamp_ttl(ttl_in).exc = "none"
                      /\ ~services_falsy(services_in)
                      /\ services_in.kind \in {"list", "unhashable"}
        cs == IF reach_list THEN check_reload(credentials, last_mtime)
              ELSE [credentials |-> credentials, last_mtime |-> last_mtime]
        available == cs.credentials \cup {"git"}
        out == create_session_outcome(key_hdr, services_in, ttl_in, available)
        sid == SidNames[next_sid]
    IN  /\ out.status = 200 => next_sid <= MaxSessions
        /\ credentials' = cs.credentials
        /\ last_mtime' = cs.last_mtime
        /\ IF out.status = 200
           THEN /\ sessions' = store_create(sessions, sid, services_in.v, out.ttl, now)
                /\ created' = store_create(created, sid, services_in.v, out.ttl, now)
                /\ next_sid' = next_sid + 1
           ELSE UNCHANGED <<sessions, created, next_sid>>
        /\ last' = [NoResp EXCEPT !.op = "create", !.key = key_hdr,
                       !.status = out.status, !.ttl_in = ttl_in,
                       !.services_in = services_in, !.expires_in = out.ttl,
                       !.new_sid = IF out.status = 200 THEN sid ELSE None]
        /\ cred' = IF reach_list THEN reload_credential(cred, last_mtime) ELSE cred
        /\ UNCHANGED <<thr, tmp, now, ticks, file, file_mtime, expired_cb, revoked>>

(***************************************************************************)
(* DELETE /sessions/<session_id>                                           *)
(***************************************************************************)
\* A handler that answers 200 whatever the store returned.
revoke_status_always(key_hdr, existed) ==
    IF ~verify_auth(key_hdr) THEN 401
    ELSE 200

\* revoke_session: the status for the store's answer
revoke_status(key_hdr, existed) ==
    IF ~verify_auth(key_hdr) THEN 401
    ELSE IF existed THEN 200
    ELSE 404

RevokeSession(key_hdr, sid) ==
    LET r == IF verify_auth(key_hdr) THEN store_revoke(sessions, sid)
             ELSE [sessions |-> sessions, result |-> FALSE]
    IN  /\ sessions' = r.sessions
        /\ revoked' = IF r.result THEN revoked \cup {sid} ELSE revoked
        /\ last' = [NoResp EXCEPT !.op = "revoke", !.key = key_hdr, !.sid = sid,
                       !.status = revoke_status(key_hdr, r.result),
                       !.result = r.result]
        /\ UNCHANGED <<thr, tmp, cred, next_sid, now, ticks, credentials, last_mtime, file,
                       file_mtime, expired_cb, created>>

(***************************************************************************)
(* GET /services                                                           *)
(***************************************************************************)
ListServices(key_hdr) ==
    LET cs == IF verify_auth(key_hdr) THEN check_reload(credentials, last_mtime)
              ELSE [credentials |-> credentials, last_mtime |-> last_mtime]
    IN  /\ credentials' = cs.credentials
        /\ last_mtime' = cs.last_mtime
        /\ last' = [NoResp EXCEPT !.op = "list", !.key = key_hdr,
                       !.status = IF verify_auth(key_hdr) THEN 200 ELSE 401,
                       !.services_in =
                           [kind |-> "list",
                            v |-> IF verify_auth(key_hdr)
                                  THEN cs.credentials \cup {"git"} ELSE {}]]
        /\ cred' = IF verify_auth(key_hdr)
                   THEN reload_credential(cred, last_mtime) ELSE cred
        /\ UNCHANGED <<thr, tmp, sessions, next_sid, now, ticks, file, file_mtime,
                       expired_cb, created, revoked>>

(***************************************************************************)
(* service_filters.py                                                      *)
(***************************************************************************)
\* method.upper()
Upper(method) ==
    CASE method = "get"    -> "GET"
      [] method = "post"   -> "POST"
      [] method = "put"    -> "PUT"
      [] method = "patch"  -> "PATCH"
      [] method = "delete" -> "DELETE"
      [] method = "Post"   -> "POST"
      [] OTHER             -> method

GMAIL_KNOWN_RESOURCES ==
    {W.messages, W.threads, W.drafts, W.labels, W.profile, W.history, W.settings}

\* _parse_gmail_segments: None, or the non-empty segments after
\* gmail/v1/users/{userId}/
parse_gmail_segments(path) ==
    LET p == Split(path)
        matches == /\ Len(p) >= 5
                   /\ p[1] = W.gmail /\ p[2] = W.v1 /\ p[3] = W.users
                   /\ p[4] # <<>>
        rest_empty == Len(p) = 5 /\ p[5] = <<>>
    IN  IF ~matches \/ rest_empty
        THEN [none |-> TRUE, segments |-> <<>>]
        ELSE [none |-> FALSE,
              segments |-> SelectSeq(SubSeq(p, 5, Len(p)), LAMBDA x : x # <<>>)]

Allow == [allowed |-> TRUE, reason |-> ""]
Deny(reason) == [allowed |-> FALSE, reason |-> reason]

\* Block rules that stop messages/send but not other paths ending in send.
gmail_block_rule_messages_send(method, segments) ==
    LET resource == segments[1]
        last_segment == segments[Len(segments)]
    IN  IF last_segment = W.send /\ resource = W.messages THEN "send blocked"
        ELSE IF resource = W.settings THEN "settings blocked"
        ELSE IF method = "DELETE" /\ resource \in {W.messages, W.threads}
        THEN "permanent deletion blocked"
        ELSE IF last_segment = W.batchDelete THEN "batch deletion blocked"
        ELSE IF method = "POST" /\ resource = W.messages /\ Len(segments) = 1
        THEN "insert blocked"
        ELSE IF resource = W.messages /\ Len(segments) >= 2 /\ segments[2] = W.import
        THEN "import blocked"
        ELSE ""

\* validate_gmail_endpoint, block rules (lines 65-89): the reason of the
\* first rule that blocks the request, or "" when none does
gmail_block_rule(method, segments) ==
    LET resource == segments[1]
        last_segment == segments[Len(segments)]
    IN  IF last_segment = W.send THEN "send blocked"
        ELSE IF resource = W.settings THEN "settings blocked"
        ELSE IF method = "DELETE" /\ resource \in {W.messages, W.threads}
        THEN "permanent deletion blocked"
        ELSE IF last_segment = W.batchDelete THEN "batch deletion blocked"
        ELSE IF method = "POST" /\ resource = W.messages /\ Len(segments) = 1
        THEN "insert blocked"
        ELSE IF resource = W.messages /\ Len(segments) >= 2 /\ segments[2] = W.import
        THEN "import blocked"
        ELSE ""

\* validate_gmail_endpoint, allow rules (lines 91-123)
gmail_allow_rule(method, segments) ==
    LET resource == segments[1]
        last_segment == segments[Len(segments)]
    IN  \/ method = "GET" /\ resource \in GMAIL_KNOWN_RESOURCES
        \/ resource = W.drafts /\ method \in {"GET", "POST", "PUT", "DELETE"}
        \/ resource = W.labels
              /\ method \in {"GET", "POST", "PUT", "PATCH", "DELETE"}
        \/ method = "POST" /\ last_segment = W.modify
        \/ method = "POST" /\ resource = W.messages /\ last_segment = W.batchModify
        \/ method = "POST" /\ last_segment \in {W.trash, W.untrash}
        \/ resource = W.profile /\ method = "GET"
        \/ resource = W.history /\ method = "GET"

\* validate_gmail_endpoint
validate_gmail_endpoint(method_in, path) ==
    LET method == Upper(method_in)
        parsed == parse_gmail_segments(path)
        segments == parsed.segments
    IN  IF parsed.none THEN Deny("invalid path format")
        ELSE IF segments = <<>> THEN Deny("no resource")
        ELSE IF gmail_block_rule(method, segments) # ""
        THEN Deny(gmail_block_rule(method, segments))
        ELSE IF gmail_allow_rule(method, segments) THEN Allow
        ELSE Deny("not in allowlist")

\* validate_proxy_request
validate_proxy_request(service, method, path) ==
    IF service = "gmail" \/ StartsWith(ServiceChars(service), W.gmail_)
    THEN validate_gmail_endpoint(method, path)
    ELSE Allow

\* Requests given to the filter: what precedes the resource, the resource
\* and what follows it.
FilterPrefixes ==
    {<<W.gmail, W.v1, W.users, W.me>>, <<W.v1, W.users, W.me>>,
     <<W.batch, W.gmail, W.v1>>, <<W.batch, W.gmail, W.v2>>, <<>>}

FilterResources == GMAIL_KNOWN_RESOURCES \cup {W.unknownResource}

FilterTails ==
    {<<>>, <<W.id>>, <<W.send>>, <<W.id, W.send>>, <<W.id, W.modify>>,
     <<W.batchDelete>>, <<W.batchModify>>, <<W.import>>, <<W.id, W.trash>>,
     <<W.id, W.untrash>>, <<W.filters>>, <<W.id, W.feed>>}

FilterSegments ==
    {<<>>, << <<>> >>} \cup {<<r>> \o t : r \in FilterResources, t \in FilterTails}

FilterMethods == {"GET", "POST", "PUT", "PATCH", "DELETE", "HEAD", "delete", "Post"}

FilterServices == {"gmail", "gmail_work", "bsky"}

\* validate_gmail_endpoint and validate_proxy_request called on a request
\* drawn at the start.
FilterCall ==
    LET direct == validate_gmail_endpoint(last.method, last.path)
        routed == validate_proxy_request(last.service, last.method, last.path)
    IN  /\ last.op = "filter_in"
        /\ last' = [last EXCEPT !.op = "filter", !.result = direct.allowed,
                       !.reason = direct.reason, !.dispatch = routed.allowed]
        /\ UNCHANGED <<thr, tmp, cred, sessions, next_sid, now, ticks, credentials,
                       last_mtime, file, file_mtime, expired_cb, created, revoked>>

(***************************************************************************)
(* git_safety.py: validate_repo_url                                        *)
(***************************************************************************)
\* Pieces of repository URLs, as character sequences.
U == [https  |-> <<"h","t","t","p","s",":","/","/">>,
      http   |-> <<"h","t","t","p",":","/","/">>,
      file   |-> <<"f","i","l","e",":","/","/">>,
      git_at |-> <<"g","i","t","@">>,
      github |-> <<"g","i","t","h","u","b",".","c","o","m">>,
      gitlab |-> <<"g","i","t","l","a","b",".","c","o","m">>,
      user   |-> <<"u","s","e","r">>,
      org    |-> <<"m","y","-","o","r","g">>,
      repo   |-> <<"r","e","p","o">>,
      dotted |-> <<"m","y",".","r","e","p","o","_","1">>,
      dotgit |-> <<".","g","i","t">>,
      creds  |-> <<"u","s","e","r",":","p","w","@">>,
      tmp    |-> <<"t","m","p">>]

\* [A-Za-z0-9._-]
NAME_CHARS ==
    {"a","b","c","d","e","f","g","h","i","j","k","l","m",
     "n","o","p","q","r","s","t","u","v","w","x","y","z",
     "A","B","C","D","E","F","G","H","I","J","K","L","M",
     "N","O","P","Q","R","S","T","U","V","W","X","Y","Z",
     "0","1","2","3","4","5","6","7","8","9", ".", "_", "-"}

\* _SHELL_METACHARACTERS; "<NUL>" stands for the character \x00.
SHELL_METACHARACTERS ==
    {";", "&", "|", "`", "$", "(", ")", "{", "}", "!", "'", "\"", "\\",
     "<", ">", "\n", "\r", "<NUL>"}

\* The characters str.strip() removes, among those of the inputs.
WHITESPACE == {" ", "\t", "\n", "\r"}

\* str.strip()
strip(s) ==
    LET keep == {i \in 1..Len(s) : s[i] \notin WHITESPACE}
    IN  IF keep = {} THEN <<>>
        ELSE SubSeq(s, CHOOSE i \in keep : \A j \in keep : i <= j,
                       CHOOSE i \in keep : \A j \in keep : i >= j)

\* _GITHUB_HTTPS_PATTERN.match / _GITHUB_SSH_PATTERN.match for the prefix
\* given: ^prefix[A-Za-z0-9._-]+/[A-Za-z0-9._-]+(\.git)?$ where $ also
\* matches before a final newline.
github_pattern(url, prefix) ==
    LET name(s) == s # <<>> /\ \A i \in 1..Len(s) : s[i] \in NAME_CHARS
        repo(s) ==
            \/ name(s)
            \/ /\ Len(s) > 4
               /\ SubSeq(s, Len(s) - 3, Len(s)) = U.dotgit
               /\ name(SubSeq(s, 1, Len(s) - 4))
        exact(s) ==
            \E k \in 1..Len(s) :
                /\ s[k] = "/"
                /\ name(SubSeq(s, 1, k - 1))
                /\ repo(SubSeq(s, k + 1, Len(s)))
        rest == SubSeq(url, Len(prefix) + 1, Len(url))
    IN  /\ StartsWith(url, prefix)
        /\ \/ exact(rest)
           \/ /\ rest # <<>>
              /\ rest[Len(rest)] = "\n"
              /\ exact(SubSeq(rest, 1, Len(rest) - 1))

validate_repo_url(url_in) ==
    LET url == strip(url_in)
    IN  IF url_in = <<>> \/ url = <<>> THEN Deny("required")
        ELSE IF \E i \in 1..Len(url) : url[i] \in SHELL_METACHARACTERS
        THEN Deny("invalid characters")
        ELSE IF (\E i \in 1..Len(url) : url[i] = "@") /\ ~StartsWith(url, U.git_at)
        THEN Deny("embedded credentials")
        ELSE IF \/ StartsWith(url, <<"/">>)
                \/ StartsWith(url, U.file)
                \/ StartsWith(url, <<".">>)
        THEN Deny("local path")
        ELSE IF github_pattern(url, U.https \o U.github \o <<"/">>) THEN Allow
        ELSE IF github_pattern(url, U.git_at \o U.github \o <<":">>) THEN Allow
        ELSE Deny("not github")

\* URLs given to validate_repo_url: GitHub, foreign and local ones, each also
\* with one more character put at its start, middle or end.
RepoUrls ==
    LET https == U.https \o U.github \o <<"/">>
        ssh == U.git_at \o U.github \o <<":">>
        bodies ==
            {<<>>,
             https \o U.user \o <<"/">> \o U.repo,
             https \o U.user \o <<"/">> \o U.repo \o U.dotgit,
             https \o U.org \o <<"/">> \o U.dotted,
             ssh \o U.user \o <<"/">> \o U.repo,
             ssh \o U.user \o <<"/">> \o U.repo \o U.dotgit,
             https \o U.user,
             https \o <<"/">> \o U.repo,
             https \o U.user \o <<"/">> \o U.repo \o <<"/">> \o U.tmp,
             U.http \o U.github \o <<"/">> \o U.user \o <<"/">> \o U.repo,
             U.https \o U.gitlab \o <<"/">> \o U.user \o <<"/">> \o U.repo,
             U.https \o U.creds \o U.github \o <<"/">> \o U.user \o <<"/">> \o U.repo,
             ssh \o U.user \o <<"/">> \o U.repo \o <<"@">> \o U.tmp,
             <<"/">> \o U.tmp \o <<"/">> \o U.repo,
             <<".", "/">> \o U.repo,
             U.file \o <<"/">> \o U.tmp \o <<"/">> \o U.repo,
             U.user \o <<"/">> \o U.repo}
        extras == SHELL_METACHARACTERS \cup {" ", "\t", "@", "x"}
        insert(s, i, ch) == SubSeq(s, 1, i) \o <<ch>> \o SubSeq(s, i + 1, Len(s))
    IN  bodies \cup
        UNION {{insert(b, i, ch) :
                  i \in {0, Len(b) \div 2, Len(b)}, ch \in extras} :
               b \in bodies}

\* validate_repo_url called on a URL drawn at the start.
ValidateRepoUrl ==
    LET v == validate_repo_url(last.path)
    IN  /\ last.op = "repo_url_in"
        /\ last' = [last EXCEPT !.op = "repo_url", !.result = v.allowed,
                       !.reason = v.reason]
        /\ UNCHANGED <<thr, tmp, cred, sessions, next_sid, now, ticks, credentials,
                       last_mtime, file, file_mtime, expired_cb, created, revoked>>

(***************************************************************************)
(* git_safety.py: validate_branch_name, is_protected_branch                *)
(***************************************************************************)
PROTECTED_BRANCHES ==
    {<<"m","a","i","n">>, <<"m","a","s","t","e","r">>,
     <<"p","r","o","d","u","c","t","i","o","n">>,
     <<"r","e","l","e","a","s","e">>, <<"d","e","v","e","l","o","p">>}

\* str.lower()
lower(s) ==
    LET up == <<"A","B","C","D","E","F","G","H","I","J","K","L","M",
                "N","O","P","Q","R","S","T","U","V","W","X","Y","Z">>
        lo == <<"a","b","c","d","e","f","g","h","i","j","k","l","m",
                "n","o","p","q","r","s","t","u","v","w","x","y","z">>
    IN  [i \in 1..Len(s) |->
            IF \E k \in 1..26 : up[k] = s[i]
            THEN lo[CHOOSE k \in 1..26 : up[k] = s[i]]
            ELSE s[i]]

validate_branch_name(branch_in) ==
    LET branch == strip(branch_in)
        alnum(ch) == ch \in NAME_CHARS \ {".", "_", "-"}
        \* ^[A-Za-z0-9][A-Za-z0-9._/-]*[A-Za-z0-9]$|^[A-Za-z0-9]$
        exact(b) ==
            /\ b # <<>>
            /\ alnum(b[1])
            /\ alnum(b[Len(b)])
            /\ \A i \in 1..Len(b) : b[i] \in NAME_CHARS \cup {"/"}
        matches ==
            \/ exact(branch)
            \/ /\ branch # <<>>
               /\ branch[Len(branch)] = "\n"
               /\ exact(SubSeq(branch, 1, Len(branch) - 1))
    IN  IF branch_in = <<>> \/ branch = <<>> THEN Deny("required")
        ELSE IF \E i \in 1..Len(branch) : branch[i] \in SHELL_METACHARACTERS
        THEN Deny("invalid characters")
        ELSE IF StartsWith(branch, <<"-">>) THEN Deny("hyphen")
        ELSE IF Contains(branch, <<".", ".">>) THEN Deny("double dot")
        ELSE IF /\ Len(branch) >= 5
                /\ SubSeq(branch, Len(branch) - 4, Len(branch)) = <<".","l","o","c","k">>
        THEN Deny("lock suffix")
        ELSE IF StartsWith(branch, <<"r","e","f","s","/">>) THEN Deny("refs prefix")
        ELSE IF ~matches THEN Deny("pattern")
        ELSE IF Len(branch) > 255 THEN Deny("too long")
        ELSE Allow

\* A membership test that does not normalise the name.
is_protected_branch_verbatim(branch) ==
    IF branch = <<>> THEN [protected |-> TRUE, reason |-> "required"]
    ELSE IF branch \in PROTECTED_BRANCHES
    THEN [protected |-> TRUE, reason |-> "blocked"]
    ELSE [protected |-> FALSE, reason |-> ""]

is_protected_branch(branch) ==
    IF branch = <<>> THEN [protected |-> TRUE, reason |-> "required"]
    ELSE IF lower(strip(branch)) \in PROTECTED_BRANCHES
    THEN [protected |-> TRUE, reason |-> "blocked"]
    ELSE [protected |-> FALSE, reason |-> ""]

\* validate_branch_name and is_protected_branch called on a name drawn at the
\* start.
CheckBranch ==
    LET v == validate_branch_name(last.path)
        p == is_protected_branch(last.path)
    IN  /\ last.op = "branch_in"
        /\ last' = [last EXCEPT !.op = "branch", !.result = v.allowed,
                       !.reason = v.reason, !.protected = p.protected,
                       !.why = p.reason]
        /\ UNCHANGED <<thr, tmp, cred, sessions, next_sid, now, ticks, credentials,
                       last_mtime, file, file_mtime, expired_cb, created, revoked>>

(***************************************************************************)
(* git_safety.py: validate_push_command_safety                             *)
(***************************************************************************)
DANGEROUS_PUSH_FLAGS ==
    {<<"-","-","f","o","r","c","e">>,
     <<"-","f">>,
     <<"-","-","f","o","r","c","e","-","w","i","t","h","-","l","e","a","s","e">>,
     <<"-","-","d","e","l","e","t","e">>,
     <<"-","-","m","i","r","r","o","r">>,
     <<"-","-","f","o","r","c","e","-","i","f","-","i","n","c","l","u","d","e","s">>}

\* A scan that takes every argument starting with a colon for a deletion.
validate_push_command_safety_any_colon(command_args) ==
    LET n == Len(command_args)
        flags == {i \in 1..n : command_args[i] \in DANGEROUS_PUSH_FLAGS}
        colons == {i \in 1..n : StartsWith(command_args[i], <<":">>)}
        first(I) == CHOOSE i \in I : \A j \in I : i <= j
    IN  IF flags # {}
        THEN [safe |-> FALSE, reason |-> "flag", arg |-> command_args[first(flags)]]
        ELSE IF colons # {}
        THEN [safe |-> FALSE, reason |-> "deletion", arg |-> command_args[first(colons)]]
        ELSE [safe |-> TRUE, reason |-> "", arg |-> <<>>]

\* The two loops return at the first argument they object to; the message
\* holds that argument.
validate_push_command_safety(command_args) ==
    LET n == Len(command_args)
        flags == {i \in 1..n : command_args[i] \in DANGEROUS_PUSH_FLAGS}
        colons == {i \in 1..n : /\ StartsWith(command_args[i], <<":">>)
                                /\ Len(command_args[i]) > 1}
        first(I) == CHOOSE i \in I : \A j \in I : i <= j
    IN  IF flags # {}
        THEN [safe |-> FALSE, reason |-> "flag", arg |-> command_args[first(flags)]]
        ELSE IF colons # {}
        THEN [safe |-> FALSE, reason |-> "deletion", arg |-> command_args[first(colons)]]
        ELSE [safe |-> TRUE, reason |-> "", arg |-> <<>>]

\* validate_push_command_safety called on a command list drawn at the start.
CheckPushCommand ==
    LET v == validate_push_command_safety(last.cmd)
    IN  /\ last.op = "push_cmd_in"
        /\ last' = [last EXCEPT !.op = "push_cmd", !.result = v.safe,
                       !.reason = v.reason, !.arg = v.arg]
        /\ UNCHANGED <<thr, tmp, cred, sessions, next_sid, now, ticks, credentials,
                       last_mtime, file, file_mtime, expired_cb, created, revoked>>

(***************************************************************************)
(* proxy.py: forward_request                                               *)
(***************************************************************************)
HexDigits ==
    {"0","1","2","3","4","5","6","7","8","9",
     "a","b","c","d","e","f","A","B","C","D","E","F"}

\* The character a %XX escape stands for.
HexChar(h1, h2) ==
    CASE h1 = "2" /\ h2 \in {"e", "E"} -> "."
      [] h1 = "2" /\ h2 \in {"f", "F"} -> "/"
      [] h1 = "2" /\ h2 = "5"          -> "%"
      [] h1 = "4" /\ h2 = "0"          -> "@"
      [] OTHER                         -> "?"

\* urllib.parse.unquote
RECURSIVE UnquoteFrom(_, _)
UnquoteFrom(s, i) ==
    IF i > Len(s) THEN <<>>
    ELSE IF s[i] = "%" /\ i + 2 <= Len(s)
            /\ s[i + 1] \in HexDigits /\ s[i + 2] \in HexDigits
    THEN <<HexChar(s[i + 1], s[i + 2])>> \o UnquoteFrom(s, i + 3)
    ELSE <<s[i]>> \o UnquoteFrom(s, i + 1)

unquote(s) == UnquoteFrom(s, 1)

\* str.rstrip("/")
RECURSIVE RStripSlash(_)
RStripSlash(s) ==
    IF Len(s) > 0 /\ s[Len(s)] = "/" THEN RStripSlash(SubSeq(s, 1, Len(s) - 1))
    ELSE s

\* urlparse(url).netloc for a url with a scheme: what follows "//" up to the
\* first "/", "?" or "#"
RECURSIVE TakeNetloc(_, _)
TakeNetloc(s, i) ==
    IF i > Len(s) \/ s[i] \in {"/", "?", "#"} THEN <<>>
    ELSE <<s[i]>> \o TakeNetloc(s, i + 1)

netloc(url) ==
    LET starts == {i \in 1..(Len(url) - 2) : SubSeq(url, i, i + 2) = <<":", "/", "/">>}
        first == CHOOSE i \in starts : \A j \in starts : i <= j
    IN  IF starts = {} THEN <<>> ELSE TakeNetloc(url, first + 3)

HTTPS == <<"h","t","t","p","s",":","/","/">>

\* cred.base_url: KNOWN_SERVICES[service]["base_url"], or the base_url of the
\* entry; the entry "bare" gives a scheme and nothing else.
base_url_of(service) ==
    CASE service = "bsky" ->
            HTTPS \o W.bsky \o <<".","s","o","c","i","a","l","/">> \o W.xrpc
      [] service = "gmail" ->
            HTTPS \o W.gmail \o <<".","g","o","o","g","l","e","a","p","i","s",".","c","o","m">>
      [] service = "bare" -> <<"h","t","t","p","s",":">>
      [] OTHER -> HTTPS \o ServiceChars(service) \o <<".","t","e","s","t">>

UpstreamOutcomes == {"200", "timeout", "connection", "error"}
InjectOutcomes == {"token", "no_token", "raise"}

\* The text of an exception raised by requests.request.
ExcText == "exception text"

\* The body of the 500 answer of forward_request.
GenericBody ==
    {"Proxy error occurred", "Request forwarding failed",
     "Check proxy server logs for details"}

\* A 500 answer that tells the client what the exception said.
upstream_failure_leaky(upstream) ==
    CASE upstream = "timeout"    -> [status |-> 504, body |-> {"upstream timeout"}]
      [] upstream = "connection" -> [status |-> 502, body |-> {"upstream connection failed"}]
      [] upstream = "error"      -> [status |-> 500, body |-> {"Proxy error occurred", ExcText}]
      [] OTHER                   -> [status |-> 200, body |-> {"upstream body"}]

\* forward_request, lines 134-166: the answer for each outcome of
\* requests.request
upstream_failure(upstream) ==
    CASE upstream = "timeout"    -> [status |-> 504, body |-> {"upstream timeout"}]
      [] upstream = "connection" -> [status |-> 502, body |-> {"upstream connection failed"}]
      [] upstream = "error"      -> [status |-> 500, body |-> GenericBody]
      [] OTHER                   -> [status |-> 200, body |-> {"upstream body"}]

\* A check that looks for ".." in the raw path only.
has_traversal_raw_only(path) == Contains(path, <<".", ".">>)

\* forward_request, lines 103-104: ".." in decoded_path or ".." in path
has_traversal(path) ==
    Contains(unquote(path), <<".", ".">>) \/ Contains(path, <<".", ".">>)

\* A forward_request that injects authentication before it validates the
\* path.
forward_request_inject_first(service, path, configured, inject, upstream) ==
    LET base_url == RStripSlash(base_url_of(service))
        target_url == base_url \o <<"/">> \o path
        up == upstream_failure(upstream)
    IN  IF ~configured
        THEN [status |-> 404, injected |-> FALSE, upstream |-> FALSE,
              body |-> {"unknown service", service}]
        ELSE IF inject = "raise"
        THEN [status |-> 500, injected |-> TRUE, upstream |-> FALSE,
              body |-> {"Internal Server Error"}]
        ELSE IF has_traversal(path)
        THEN [status |-> 400, injected |-> TRUE, upstream |-> FALSE,
              body |-> {"path traversal detected"}]
        ELSE IF netloc(target_url) # netloc(base_url)
        THEN [status |-> 400, injected |-> TRUE, upstream |-> FALSE,
              body |-> {"proxy target host mismatch"}]
        ELSE [status |-> up.status, injected |-> TRUE, upstream |-> TRUE,
              body |-> up.body]

\* forward_request: the response status and body, whether inject_auth ran and
\* whether the upstream request was issued
forward_request(service, path, configured, inject, upstream) ==
    LET base_url == RStripSlash(base_url_of(service))
        target_url == base_url \o <<"/">> \o path
        up == upstream_failure(upstream)
    IN  IF ~configured
        THEN [status |-> 404, injected |-> FALSE, upstream |-> FALSE,
              body |-> {"unknown service", service}]
        ELSE IF has_traversal(path)
        THEN [status |-> 400, injected |-> FALSE, upstream |-> FALSE,
              body |-> {"path traversal detected"}]
        ELSE IF netloc(target_url) # netloc(base_url)
        THEN [status |-> 400, injected |-> FALSE, upstream |-> FALSE,
              body |-> {"proxy target host mismatch"}]
        ELSE IF inject = "raise"
        THEN [status |-> 500, injected |-> TRUE, upstream |-> FALSE,
              body |-> {"Internal Server Error"}]
        ELSE [status |-> up.status, injected |-> TRUE, upstream |-> TRUE,
              body |-> up.body]

ALLOWED_FORWARD_HEADERS ==
    {"content-type", "accept", "accept-language", "accept-encoding",
     "user-agent", "content-length", "content-encoding"}

\* Headers a client can send, as <<name, value>>.
HeaderPool ==
    {<<"Content-Type", "application/json">>, <<"ACCEPT", "*/*">>,
     <<"Authorization", "Bearer client">>, <<"Cookie", "id=1">>,
     <<"X-Session-Id", "sid-1">>, <<"Host", "internal">>}

\* str.lower() of a header name
Lower(name) ==
    CASE name = "Content-Type"  -> "content-type"
      [] name = "ACCEPT"        -> "accept"
      [] name = "Authorization" -> "authorization"
      [] name = "Cookie"        -> "cookie"
      [] name = "X-Session-Id"  -> "x-session-id"
      [] name = "Host"          -> "host"
      [] OTHER                  -> name

\* A filter that drops two known headers and lets the others through.
filter_request_headers_blocklist(headers) ==
    {h \in headers : Lower(h[1]) \notin {"host", "cookie"}}

\* filter_request_headers
filter_request_headers(headers) ==
    {h \in headers : Lower(h[1]) \in ALLOWED_FORWARD_HEADERS}

\* ServiceCredential.inject_auth for a token-bearing credential:
\* headers["Authorization"] = "Bearer <token>" when a token is available
inject_auth(headers, inject) ==
    IF inject = "token"
    THEN {h \in headers : h[1] # "Authorization"}
            \cup {<<"Authorization", "Bearer token">>}
    ELSE headers

\* ServiceCredential.inject_auth as a whole. c is the credential: its
\* service_type, its credential, auth_header and query_param (<<>> or "" for
\* None or empty); token is what _get_atproto_token or _get_oauth2_token does:
\* it returns a token, returns None, or raises. Headers are <<name, value>>
\* pairs with the value a character sequence; headers[k] = v replaces the
\* value under exactly that name.
inject_auth_by_type(c, headers, url, token) ==
    LET Bearer == <<"B","e","a","r","e","r"," ">>
        set(k, v) == {h \in headers : h[1] # k} \cup {<<k, v>>}
        header_name == IF c.auth_header # "" THEN c.auth_header ELSE "X-API-Key"
        param_name == IF c.query_param # <<>> THEN c.query_param
                      ELSE <<"a","p","i","_","k","e","y">>
        separator == IF Contains(url, <<"?">>) THEN <<"&">> ELSE <<"?">>
        same == [raised |-> FALSE, headers |-> headers, url |-> url]
    IN  CASE c.service_type \in {"atproto", "oauth2"} ->
               IF token = "raise"
               THEN [raised |-> TRUE, headers |-> {}, url |-> <<>>]
               ELSE IF token = "token"
               THEN [same EXCEPT !.headers =
                        set("Authorization", Bearer \o <<"t","o","k">>)]
               ELSE same
          [] c.service_type = "bearer" ->
               IF c.credential # <<>>
               THEN [same EXCEPT !.headers = set("Authorization", Bearer \o c.credential)]
               ELSE same
          [] c.service_type = "header" ->
               IF c.credential # <<>>
               THEN [same EXCEPT !.headers = set(header_name, c.credential)]
               ELSE same
          [] c.service_type = "query" ->
               IF c.credential # <<>>
               THEN [same EXCEPT !.url =
                        url \o separator \o param_name \o <<"=">> \o c.credential]
               ELSE same
          [] OTHER -> same

\* inject_auth called on a credential, a headers mapping and a URL drawn at
\* the start; last.headers is the mapping the caller still holds afterwards.
InjectAuth(token) ==
    LET r == inject_auth_by_type(last.credential, last.headers, last.path, token)
    IN  /\ last.op = "inject_in"
        /\ last' = [last EXCEPT !.op = "inject", !.inject = token,
                       !.result = ~r.raised, !.up_headers = r.headers,
                       !.url = r.url]
        /\ UNCHANGED <<thr, tmp, cred, sessions, next_sid, now, ticks, credentials,
                       last_mtime, file, file_mtime, expired_cb, created, revoked>>

\* Paths given to forward_request.
ForwardPaths ==
    {<<".",".","/","e","t","c","/","p","a","s","s","w","d">>,
     <<"%","2","e","%","2","e","/","x">>,
     <<"a","/",".",".","/","b">>,
     <<"%","2","E","%","2","e">>,
     <<".",".">>,
     <<"a",".",".","b">>,
     <<".","%","2","e">>,
     <<"a","/","b">>,
     <<"a","/",".","/","b">>,
     <<"%","2","5","2","e","%","2","5","2","e","/","x">>,
     <<"a","%","2","f","b">>,
     <<"x",".","y">>,
     <<"/","e","v","i","l",".","c","o","m","/","x">>}

ForwardServices == {"bsky", "gmail", "nope", "bare"}

(***************************************************************************)
(* ANY /proxy/<service>/<path>                                             *)
(***************************************************************************)
\* Method and path of the proxied calls a client makes.
ProxyCalls ==
    {[method |-> "POST",
      path |-> Join(<<W.gmail, W.v1, W.users, W.me, W.messages, W.send>>)],
     [method |-> "GET",
      path |-> Join(<<W.gmail, W.v1, W.users, W.me, W.drafts>>)]}

ProxyServices == {"bsky", "gmail", "git"}

\* A gate without the scope check of lines 237-238.
proxy_gate_unscoped(service, sid_hdr, found, has_service) ==
    IF service = "git" THEN 400
    ELSE IF sid_hdr = NoHeader \/ sid_hdr = "" THEN 401
    ELSE IF ~found THEN 401
    ELSE 0

\* proxy_request up to the call of forward_request: the status of an early
\* return, or 0 when the request goes on to the forwarder
proxy_gate(service, sid_hdr, found, has_service) ==
    IF service = "git" THEN 400
    ELSE IF sid_hdr = NoHeader \/ sid_hdr = "" THEN 401
    ELSE IF ~found THEN 401
    ELSE IF ~has_service THEN 403
    ELSE 0

ProxyRequest(sid_hdr, service, call, inject, upstream) ==
    LET lookup == service # "git" /\ sid_hdr # NoHeader /\ sid_hdr # ""
        g == IF lookup THEN store_get(sessions, sid_hdr, now)
             ELSE [sessions |-> sessions, fired |-> NoneFired, found |-> FALSE]
        has == g.found /\ session_has_service(sessions[sid_hdr], service)
        gate == proxy_gate(service, sid_hdr, g.found, has)
        cs == IF gate = 0 THEN check_reload(credentials, last_mtime)
              ELSE [credentials |-> credentials, last_mtime |-> last_mtime]
        fwd == forward_request(service, call.path, service \in cs.credentials,
                               inject, upstream)
    IN  /\ sessions' = g.sessions
        /\ expired_cb' = on_session_expired(expired_cb, g.fired)
        /\ credentials' = cs.credentials
        /\ last_mtime' = cs.last_mtime
        /\ last' = [NoResp EXCEPT !.op = "proxy", !.sid = sid_hdr,
                       !.service = service, !.method = call.method,
                       !.path = call.path,
                       !.status = IF gate = 0 THEN fwd.status ELSE gate,
                       !.handed = (gate = 0),
                       !.fired = CallbackCount(g.fired),
                       !.upstream = (gate = 0 /\ fwd.upstream)]
        /\ cred' = IF gate = 0 THEN reload_credential(cred, last_mtime) ELSE cred
        /\ UNCHANGED <<thr, tmp, next_sid, now, ticks, file, file_mtime, created, revoked>>

(***************************************************************************)
(* POST /git/fetch-bundle and POST /git/push-bundle                        *)
(***************************************************************************)
\* Repository URLs and branch names a client sends: absent, a GitHub URL, a
\* local path; absent, a feature branch, protected names, a flag.
GitUrls ==
    LET repos == U.https \o U.github \o <<"/">> \o U.user \o <<"/">>
    IN  {<<>>, repos \o U.repo, <<"/">> \o U.tmp \o <<"/">> \o U.repo,
         repos \o U.repo \o U.dotgit \o <<"/">>,
         <<" ">> \o repos \o U.repo \o <<"\n">>,
         repos \o <<".", ".">>, repos \o <<".", ".">> \o U.dotgit,
         repos \o <<".">>, repos \o U.dotgit,
         U.git_at \o U.github \o <<":">> \o U.user \o <<"/">> \o U.dotted \o U.dotgit}

GitBranches ==
    {<<>>, <<"f","e","a","t","u","r","e">>, <<"m","a","i","n">>,
     <<"M","a","i","n"," ">>, <<"-","f">>,
     <<" ","f","e","a","t","u","r","e">>, <<"f","e","a","t","u","r","e","\n">>}

\* repo_url.rstrip("/").split("/")[-1].replace(".git", "")
repo_name(repo_url) ==
    LET RECURSIVE replace_dotgit(_)
        replace_dotgit(s) ==
            IF Len(s) < 4 THEN s
            ELSE IF SubSeq(s, 1, 4) = U.dotgit
            THEN replace_dotgit(SubSeq(s, 5, Len(s)))
            ELSE <<s[1]>> \o replace_dotgit(Tail(s))
        segs == Split(RStripSlash(repo_url))
    IN  replace_dotgit(segs[Len(segs)])

\* os.path.join(temp_dir, repo_name) for the directory that
\* tempfile.TemporaryDirectory() made, as the path segments the operating
\* system resolves it to: "" and "." stay where they are, ".." goes up.
repo_path(name) ==
    LET temp_dir == <<U.tmp, <<"t","m","p","d","i","r">>>>
        RECURSIVE resolve(_)
        resolve(segs) ==
            IF segs = <<>> THEN <<>>
            ELSE LET head == resolve(SubSeq(segs, 1, Len(segs) - 1))
                     seg == segs[Len(segs)]
                 IN  IF seg \in {<<>>, <<".">>} THEN head
                     ELSE IF seg = <<".", ".">>
                     THEN SubSeq(head, 1, Len(head) - 1)
                     ELSE Append(head, seg)
    IN  [temp_dir |-> temp_dir, path |-> resolve(temp_dir \o Split(name))]

\* A request body: whether it parses as a JSON object (fetch), its repo_url
\* and branch, whether a bundle file is attached and create_pr is "true" (push)
FetchInputs ==
    {[json |-> j, repo_url |-> u, branch |-> <<>>, bundle |-> FALSE,
      create_pr |-> FALSE] : j \in BOOLEAN, u \in GitUrls}

\* What happens to the subprocesses: all end with 0, or the one named ends
\* with a non-zero code, exceeds its timeout or cannot be run.
FetchOutcomes ==
    {"ok", "clone_failed", "clone_timeout", "clone_raise",
     "bundle_failed", "bundle_timeout", "bundle_raise"}

\* fetch_bundle without the authentication check of lines 285-292.
fetch_bundle_status_open(auth_type, input, outcome) ==
    IF ~input.json THEN 500
    ELSE IF input.repo_url = <<>> THEN 400
    ELSE IF ~validate_repo_url(input.repo_url).allowed THEN 400
    ELSE CASE outcome = "ok" -> 200
           [] outcome \in {"clone_timeout", "bundle_timeout"} -> 408
           [] OTHER -> 500

\* fetch_bundle: the response status
fetch_bundle_status(auth_type, input, outcome) ==
    IF auth_type = None THEN 401
    ELSE IF ~input.json THEN 500
    ELSE IF input.repo_url = <<>> THEN 400
    ELSE IF ~validate_repo_url(input.repo_url).allowed THEN 400
    ELSE CASE outcome = "ok" -> 200
           [] outcome \in {"clone_timeout", "bundle_timeout"} -> 408
           [] OTHER -> 500

\* fetch_bundle: the subprocesses started, the temporary directory and bundle
\* file created, how many of them are on disk when the handler returns, and
\* the strings of the request put on the command lines (git clone repo_url).
\* The directory goes with its "with" block; the bundle file is unlinked only
\* when git bundle ends with a non-zero code.
fetch_bundle_effects(auth_type, input, outcome) ==
    IF fetch_bundle_status(auth_type, input, "ok") # 200
    THEN [ran |-> {}, made |-> 0, left |-> 0, args |-> <<>>]
    ELSE IF outcome \in {"clone_failed", "clone_timeout", "clone_raise"}
    THEN [ran |-> {"clone"}, made |-> 1, left |-> 0,
          args |-> <<input.repo_url>>]
    ELSE [ran |-> {"clone", "bundle"}, made |-> 2,
          left |-> IF outcome = "bundle_failed" THEN 0 ELSE 1,
          args |-> <<input.repo_url>>]

PushInputs ==
    {[json |-> TRUE, repo_url |-> u, branch |-> b, bundle |-> f,
      create_pr |-> pr] :
        u \in GitUrls, b \in GitBranches, f \in BOOLEAN, pr \in BOOLEAN}

\* As FetchOutcomes, with the saving of the uploaded bundle and the gh CLI,
\* which can also be absent from the server.
PushOutcomes ==
    {"ok", "save_raise", "clone_failed", "clone_timeout", "clone_raise",
     "fetch_failed", "fetch_timeout", "fetch_raise",
     "push_failed", "push_timeout", "push_raise",
     "gh_absent", "gh_failed", "gh_timeout", "gh_raise"}

\* push_bundle that does not ask is_protected_branch.
push_bundle_status_unprotected(auth_type, input, outcome) ==
    IF auth_type = None THEN 401
    ELSE IF input.repo_url = <<>> \/ input.branch = <<>> THEN 400
    ELSE IF ~validate_repo_url(input.repo_url).allowed THEN 400
    ELSE IF ~validate_branch_name(input.branch).allowed THEN 400
    ELSE IF ~input.bundle THEN 400
    ELSE CASE outcome \in {"clone_timeout", "fetch_timeout", "push_timeout"} -> 408
           [] outcome \in {"save_raise", "clone_failed", "clone_raise",
                           "fetch_failed", "fetch_raise",
                           "push_failed", "push_raise"} -> 500
           [] outcome = "gh_timeout" /\ input.create_pr -> 408
           [] outcome = "gh_raise" /\ input.create_pr -> 500
           [] OTHER -> 200

\* push_bundle: the response status. validate_push_command_safety never
\* objects to ["git", "push", "origin", branch] for a branch that passed
\* validate_branch_name.
push_bundle_status(auth_type, input, outcome) ==
    IF auth_type = None THEN 401
    ELSE IF input.repo_url = <<>> \/ input.branch = <<>> THEN 400
    ELSE IF ~validate_repo_url(input.repo_url).allowed THEN 400
    ELSE IF ~validate_branch_name(input.branch).allowed THEN 400
    ELSE IF is_protected_branch(input.branch).protected THEN 403
    ELSE IF ~input.bundle THEN 400
    ELSE CASE outcome \in {"clone_timeout", "fetch_timeout", "push_timeout"} -> 408
           [] outcome \in {"save_raise", "clone_failed", "clone_raise",
                           "fetch_failed", "fetch_raise",
                           "push_failed", "push_raise"} -> 500
           [] outcome = "gh_timeout" /\ input.create_pr -> 408
           [] outcome = "gh_raise" /\ input.create_pr -> 500
           [] OTHER -> 200

\* push_bundle: the subprocesses started, the temporary bundle file and
\* directory created, how many are on disk when the handler returns (the
\* "finally" unlinks the file), whether git push ended with 0, the
\* pr_created and manual_pr_url fields of a 200 answer, and the strings of the
\* request put on the command lines: git clone repo_url, git fetch
\* branch:branch, git push origin branch, gh pr create --head branch.
push_bundle_effects(auth_type, input, outcome) ==
    LET pushed == outcome \in {"ok", "gh_absent", "gh_failed", "gh_timeout", "gh_raise"}
        gh == pushed /\ input.create_pr
        answered == push_bundle_status(auth_type, input, outcome) = 200
    IN  IF push_bundle_status(auth_type, input, "ok") # 200
        THEN [ran |-> {}, made |-> 0, left |-> 0, pushed |-> FALSE,
              pr_created |-> FALSE, manual_pr_url |-> FALSE, args |-> <<>>]
        ELSE IF outcome = "save_raise"
        THEN [ran |-> {}, made |-> 1, left |-> 0, pushed |-> FALSE,
              pr_created |-> FALSE, manual_pr_url |-> FALSE, args |-> <<>>]
        ELSE [args |-> <<input.repo_url>>
                       \o (IF outcome \in {"clone_failed", "clone_timeout",
                                           "clone_raise"}
                           THEN <<>>
                           ELSE <<input.branch \o <<":">> \o input.branch>>)
                       \o (IF pushed \/ outcome \in {"push_failed", "push_timeout",
                                                     "push_raise"}
                           THEN <<input.branch>> ELSE <<>>)
                       \o (IF gh /\ outcome # "gh_absent"
                           THEN <<input.branch>> ELSE <<>>),
              ran |-> {"clone"}
                      \cup (IF outcome \in {"clone_failed", "clone_timeout",
                                            "clone_raise"}
                            THEN {} ELSE {"fetch"})
                      \cup (IF pushed \/ outcome \in {"push_failed", "push_timeout",
                                                      "push_raise"}
                            THEN {"push"} ELSE {})
                      \cup (IF gh /\ outcome # "gh_absent" THEN {"gh"} ELSE {}),
              made |-> 2, left |-> 0, pushed |-> pushed,
              pr_created |-> gh /\ outcome = "ok",
              manual_pr_url |-> gh /\ answered /\ outcome # "ok"]

\* The names of n more files in the temporary directory.
NewTmp(n) == {Cardinality(tmp) + k : k \in 1..n}

FetchBundle(sid_hdr, key_hdr, input, outcome) ==
    \E a \in {verify_session_or_key(sessions, sid_hdr, key_hdr, "git", now)} :
    \E e \in {fetch_bundle_effects(a.auth_type, input, outcome)} :
    LET target == repo_path(repo_name(input.repo_url))
    IN  /\ sessions' = a.sessions
        /\ expired_cb' = on_session_expired(expired_cb, a.fired)
        /\ tmp' = tmp \cup NewTmp(e.left)
        /\ last' = [NoResp EXCEPT !.op = "fetch", !.sid = sid_hdr, !.key = key_hdr,
                       !.service = "git",
                       !.status = fetch_bundle_status(a.auth_type, input, outcome),
                       !.read_input = (a.auth_type # None),
                       !.fired = CallbackCount(a.fired),
                       !.auth_type = a.auth_type,
                       !.input = input, !.outcome = outcome,
                       !.ran = e.ran, !.made = e.made, !.cmd = e.args,
                       !.prefix = IF "clone" \in e.ran THEN target.temp_dir ELSE <<>>,
                       !.segs = IF "clone" \in e.ran THEN target.path ELSE <<>>]
        /\ UNCHANGED <<thr, cred, next_sid, now, ticks, credentials, last_mtime, file,
                       file_mtime, created, revoked>>

PushBundle(sid_hdr, key_hdr, input, outcome) ==
    \E a \in {verify_session_or_key(sessions, sid_hdr, key_hdr, "git", now)} :
    \E e \in {push_bundle_effects(a.auth_type, input, outcome)} :
    LET target == repo_path(repo_name(input.repo_url))
    IN  /\ sessions' = a.sessions
        /\ expired_cb' = on_session_expired(expired_cb, a.fired)
        /\ tmp' = tmp \cup NewTmp(e.left)
        /\ last' = [NoResp EXCEPT !.op = "push", !.sid = sid_hdr, !.key = key_hdr,
                       !.service = "git",
                       !.status = push_bundle_status(a.auth_type, input, outcome),
                       !.read_input = (a.auth_type # None),
                       !.fired = CallbackCount(a.fired),
                       !.auth_type = a.auth_type,
                       !.input = input, !.outcome = outcome,
                       !.ran = e.ran, !.made = e.made, !.cmd = e.args,
                       !.prefix = IF "clone" \in e.ran THEN target.temp_dir ELSE <<>>,
                       !.segs = IF "clone" \in e.ran THEN target.path ELSE <<>>,
                       !.pushed = e.pushed,
                       !.pr_created = e.pr_created,
                       !.manual_pr_url = e.manual_pr_url]
        /\ UNCHANGED <<thr, cred, next_sid, now, ticks, credentials, last_mtime, file,
                       file_mtime, created, revoked>>

(***************************************************************************)
(* Direct calls of the SessionStore API                                    *)
(***************************************************************************)
StoreServices == {"git", "bsky", "gmail"}

StoreGet(sid) ==
    LET g == store_get(sessions, sid, now)
    IN  /\ sessions' = g.sessions
        /\ expired_cb' = on_session_expired(expired_cb, g.fired)
        /\ last' = [NoResp EXCEPT !.op = "get", !.sid = sid, !.result = g.found,
                       !.fired = CallbackCount(g.fired)]
        /\ UNCHANGED <<thr, tmp, cred, next_sid, now, ticks, credentials, last_mtime, file,
                       file_mtime, created, revoked>>

StoreHasService(sid, service) ==
    LET h == store_has_service(sessions, sid, service, now)
    IN  /\ sessions' = h.sessions
        /\ expired_cb' = on_session_expired(expired_cb, h.fired)
        /\ last' = [NoResp EXCEPT !.op = "has_service", !.sid = sid,
                       !.service = service, !.result = h.result,
                       !.fired = CallbackCount(h.fired)]
        /\ UNCHANGED <<thr, tmp, cred, next_sid, now, ticks, credentials, last_mtime, file,
                       file_mtime, created, revoked>>

StoreCleanupExpired ==
    LET c == cleanup_expired(sessions, now)
    IN  /\ sessions' = c.sessions
        /\ expired_cb' = on_session_expired(expired_cb, c.fired)
        /\ last' = [NoResp EXCEPT !.op = "cleanup", !.expires_in = c.result,
                       !.fired = CallbackCount(c.fired)]
        /\ UNCHANGED <<thr, tmp, cred, next_sid, now, ticks, credentials, last_mtime, file,
                       file_mtime, created, revoked>>

(***************************************************************************)
(* Environment: the clock and the credentials file                         *)
(***************************************************************************)
\* One minute passes.
Tick ==
    /\ ticks < MaxTicks
    /\ ticks' = ticks + 1
    /\ now' = now + 1
    /\ last' = [NoResp EXCEPT !.op = "tick"]
    /\ UNCHANGED <<thr, tmp, cred, sessions, next_sid, credentials, last_mtime, file, file_mtime,
                   expired_cb, created, revoked>>

FileContents ==
    {[exists |-> TRUE, json |-> TRUE, entries |-> [name \in names |-> PlainEntry]] :
        names \in {{"bsky"}, {"bsky", "gmail"}}}

EditFile(content) ==
    /\ file_mtime <= MaxEdits
    /\ file' = content
    /\ file_mtime' = file_mtime + 1
    /\ last' = [NoResp EXCEPT !.op = "edit"]
    /\ UNCHANGED <<thr, tmp, cred, sessions, next_sid, now, ticks, credentials, last_mtime,
                   expired_cb, created, revoked>>

\* credentials.json is removed.
DeleteFile ==
    /\ file.exists
    /\ file' = [file EXCEPT !.exists = FALSE]
    /\ last' = [NoResp EXCEPT !.op = "delete"]
    /\ UNCHANGED <<thr, tmp, cred, sessions, next_sid, credentials, last_mtime,
                   file_mtime, now, ticks, expired_cb, created, revoked>>

\* Contents written to credentials.json: text that is not JSON, and objects
\* with a plain, a non-object or a wrongly typed entry for bsky, with or
\* without gmail, and with an entry for a service that is not a known one.
StoreFiles ==
    LET bsky == {PlainEntry, [PlainEntry EXCEPT !.dict = FALSE],
                 [PlainEntry EXCEPT !.type = "bogus"]}
        custom == {PlainEntry,
                   [PlainEntry EXCEPT !.base_url = TRUE],
                   [PlainEntry EXCEPT !.base_url = TRUE, !.keys = {"token"}],
                   [PlainEntry EXCEPT !.base_url = TRUE, !.type = "header"],
                   [PlainEntry EXCEPT !.base_url = TRUE, !.type = "bogus"],
                   [PlainEntry EXCEPT !.dict = FALSE]}
        objects ==
            UNION {[names -> bsky \cup custom] :
                     names \in SUBSET {"bsky", "gmail", "custom"}}
    IN  {[exists |-> TRUE, json |-> FALSE, entries |-> <<>>]} \cup
        {[exists |-> TRUE, json |-> TRUE, entries |-> e] :
            e \in {o \in objects :
                     /\ \A n \in DOMAIN o \cap {"bsky"} : o[n] \in bsky
                     /\ \A n \in DOMAIN o \cap {"gmail"} : o[n] = PlainEntry
                     /\ \A n \in DOMAIN o \cap {"custom"} : o[n] \in custom}}

\* CredentialStore.get(service)
GetCredential(service) ==
    LET cs == check_reload(credentials, last_mtime)
    IN  /\ credentials' = cs.credentials
        /\ last_mtime' = cs.last_mtime
        /\ last' = [NoResp EXCEPT !.op = "get_credential", !.service = service,
                       !.result = cs_has(credentials, last_mtime, service)]
        /\ cred' = reload_credential(cred, last_mtime)
        /\ UNCHANGED <<thr, tmp, sessions, next_sid, now, ticks, file, file_mtime,
                       expired_cb, created, revoked>>

\* _parse_service_config called, as _load calls it, on an entry drawn at the
\* start: whether a ServiceCredential came back, and its service_type.
ParseServiceConfig ==
    LET r == parse_service_config(last.service, last.config)
    IN  /\ last.op = "parse_in"
        /\ last' = [last EXCEPT !.op = "parse", !.outcome = r,
                       !.result = (r = "cred"),
                       !.saw = IF r = "cred"
                               THEN service_type(last.service, last.config)
                               ELSE ""]
        /\ UNCHANGED <<thr, tmp, cred, sessions, next_sid, now, ticks, credentials,
                       last_mtime, file, file_mtime, expired_cb, created, revoked>>

(***************************************************************************)
(* credentials.py: the token cache of one ServiceCredential                *)
(***************************************************************************)
\* Minutes before expires_at at which a cached token is no longer used.
REFRESH_BUFFER == 5
\* Lifetime, in minutes, given to an ATProto session (timedelta(hours=2)).
ATPROTO_TTL == 120

Callers == 1..MaxCallers

\* Lifetimes, in minutes, that a token endpoint grants (expires_in / 60).
OAuthLifetimes == {1, 60}

\* What the network answers to a refresh or createSession call.
TokenResponses(kind) ==
    {[ok |-> FALSE, lifetime |-> 0]}
    \cup {[ok |-> TRUE, lifetime |-> l] :
            l \in IF kind = "atproto" THEN {ATPROTO_TTL} ELSE OAuthLifetimes}

\* "expires_at > now + timedelta(minutes=5)" on a cache that holds a token
is_fresh(cache, t) == cache # NoCache /\ cache.expires_at > t + REFRESH_BUFFER

\* _get_atproto_token / _get_oauth2_token once the lock is held: return the
\* cached token, or issue a refresh call, or issue a createSession call
first_step(kind, cache, t) ==
    IF kind = "atproto"
    THEN IF cache # NoCache
         THEN (IF is_fresh(cache, t) THEN "cached" ELSE "refresh")
         ELSE "create"
    ELSE IF is_fresh(cache, t) THEN "cached" ELSE "refresh"

\* What follows a refresh call that failed: _get_atproto_token goes on to
\* _create_atproto_session, _get_oauth2_token returns None
after_failed_refresh(kind) == IF kind = "atproto" THEN "create" ELSE "return"

\* A thread that ignores the lock.
lock_free_always(lock) == TRUE

\* "with self._session_lock" / "with self._oauth2_lock" can be entered
lock_free(lock) == lock = 0

\* The calls of the network now in flight.
InFlight == {c \in Callers : cred.pc[c] \in {"refreshing", "creating"}}

\* A tracker that is told of the tokens of createSession only.
tracked_on_create_only(kind, call, token) ==
    IF call = "refreshing" THEN {}
    ELSE IF kind = "atproto" THEN {token, -token} ELSE {token}

\* redactor.track_runtime_credential after a createSession or refresh call
\* that succeeded: the access token and, for atproto, the refresh JWT, written
\* here as the negated token number.
tracked_on(kind, call, token) ==
    IF kind = "atproto" THEN {token, -token} ELSE {token}

NewCred(kind, cache) ==
    [kind |-> kind, cache |-> cache, lock |-> 0, minted |-> cache.token,
     tracked |-> IF cache.token = NoToken THEN {}
                 ELSE tracked_on(kind, "creating", cache.token),
     net |-> 0, floor |-> 0,
     failures |-> 0, shorts |-> 0,
     pc |-> [c \in Callers |-> "idle"],
     calls |-> [c \in Callers |-> 0],
     saw |-> [c \in Callers |-> ""],
     failed |-> [c \in Callers |-> FALSE],
     token |-> [c \in Callers |-> NoToken]]

\* A thread calls inject_auth and arrives at the lock.
GetTokenCall(c) ==
    /\ cred.pc[c] = "idle"
    /\ cred' = [cred EXCEPT !.pc[c] = "waiting"]
    /\ last' = [NoResp EXCEPT !.op = "token_call", !.caller = c]
    /\ UNCHANGED <<thr, tmp, sessions, next_sid, now, ticks, credentials, last_mtime, file,
                   file_mtime, expired_cb, created, revoked>>

\* The thread takes the lock and looks at the cache.
GetTokenEnter(c) ==
    LET step == first_step(cred.kind, cred.cache, now)
        saw == IF cred.cache = NoCache THEN "none"
               ELSE IF is_fresh(cred.cache, now) THEN "fresh" ELSE "stale"
    IN  /\ cred.pc[c] = "waiting"
        /\ lock_free(cred.lock)
        /\ IF step = "cached"
           THEN /\ cred' = [cred EXCEPT !.pc[c] = "done", !.saw[c] = saw,
                                        !.token[c] = cred.cache.token]
                /\ last' = [NoResp EXCEPT !.op = "token", !.caller = c,
                               !.saw = saw, !.calls = 0,
                               !.token = cred.cache.token]
           ELSE /\ cred' = [cred EXCEPT
                               !.pc[c] = IF step = "refresh" THEN "refreshing"
                                         ELSE "creating",
                               !.saw[c] = saw, !.lock = c,
                               !.net = @ + 1, !.calls[c] = 1]
                /\ last' = [NoResp EXCEPT !.op = "token_enter", !.caller = c,
                               !.saw = saw]
        /\ UNCHANGED <<thr, tmp, sessions, next_sid, now, ticks, credentials, last_mtime,
                       file, file_mtime, expired_cb, created, revoked>>

\* The network call of the thread ends; the thread goes on to its return, or,
\* for atproto after a failed refresh, to a createSession call.
GetTokenRespond(c, resp) ==
    LET fresh_token == [token |-> cred.minted + 1,
                        expires_at |-> now + resp.lifetime]
        retry == /\ cred.pc[c] = "refreshing"
                 /\ ~resp.ok
                 /\ after_failed_refresh(cred.kind) = "create"
        failed == cred.failed[c] \/ (cred.pc[c] = "refreshing" /\ ~resp.ok)
    IN  /\ cred.pc[c] \in {"refreshing", "creating"}
        /\ resp \in TokenResponses(cred.kind)
        /\ IF resp.ok
           THEN /\ cred' = [cred EXCEPT !.cache = fresh_token, !.minted = @ + 1,
                                        !.tracked = @ \cup
                                            tracked_on(cred.kind, cred.pc[c],
                                                       fresh_token.token),
                                        !.shorts = IF resp.lifetime <= REFRESH_BUFFER
                                                   THEN @ + 1 ELSE @,
                                        !.pc[c] = "done", !.lock = 0,
                                        !.token[c] = fresh_token.token]
                /\ last' = [NoResp EXCEPT !.op = "token", !.caller = c,
                               !.saw = cred.saw[c], !.calls = cred.calls[c],
                               !.token = fresh_token.token,
                               !.refresh_failed = cred.failed[c]]
           ELSE IF retry
           THEN /\ cred' = [cred EXCEPT !.cache = NoCache, !.pc[c] = "creating",
                                        !.failed[c] = TRUE, !.failures = @ + 1,
                                        !.net = @ + 1, !.calls[c] = @ + 1]
                /\ last' = [NoResp EXCEPT !.op = "token_retry", !.caller = c,
                               !.saw = cred.saw[c]]
           ELSE /\ cred' = [cred EXCEPT
                               !.cache = IF cred.pc[c] = "refreshing"
                                         THEN NoCache ELSE @,
                               !.pc[c] = "done", !.lock = 0,
                               !.failed[c] = failed, !.failures = @ + 1,
                               !.token[c] = NoToken]
                /\ last' = [NoResp EXCEPT !.op = "token", !.caller = c,
                               !.saw = cred.saw[c], !.calls = cred.calls[c],
                               !.token = NoToken, !.refresh_failed = failed]
        /\ UNCHANGED <<thr, tmp, sessions, next_sid, now, ticks, credentials, last_mtime,
                       file, file_mtime, expired_cb, created, revoked>>

\* Time passes while no call of the network is in flight.
TokenSleeps == {56, 116}

Sleep(d) ==
    /\ ticks < MaxTicks
    /\ InFlight = {}
    /\ ticks' = ticks + 1
    /\ now' = now + d
    /\ last' = [NoResp EXCEPT !.op = "sleep"]
    /\ UNCHANGED <<thr, tmp, cred, sessions, next_sid, credentials, last_mtime, file,
                   file_mtime, expired_cb, created, revoked>>

(***************************************************************************)
(* Specifications                                                          *)
(***************************************************************************)
EmptyMap == [k \in {} |-> None]

\* No thread is inside the SessionStore and its lock is free.
NoThreads ==
    [lock     |-> 0,
     pc       |-> [t \in 1..MaxThreads |-> "idle"],
     op       |-> [t \in 1..MaxThreads |-> ""],
     snap     |-> [t \in 1..MaxThreads |-> EmptyMap],
     ret      |-> [t \in 1..MaxThreads |-> FALSE],
     after    |-> [t \in 1..MaxThreads |-> FALSE],
     removals |-> 0]

\* The server after construction: no session, credentials.json loaded.
InitServer ==
    /\ sessions = EmptyMap
    /\ next_sid = 1
    /\ now = 0
    /\ ticks = 0
    /\ file = [exists |-> TRUE, json |-> TRUE,
               entries |-> [name \in {"bsky", "gmail"} |-> PlainEntry]]
    /\ file_mtime = 1
    /\ credentials = {"bsky", "gmail"}
    /\ last_mtime = 1
    /\ expired_cb = NoneFired
    /\ created = EmptyMap
    /\ revoked = {}
    /\ tmp = {}
    /\ thr = NoThreads

Init ==
    /\ InitServer
    /\ last = NoResp
    /\ cred = NewCred("oauth2", NoCache)

\* Session lifecycle: sessions are created with well-formed bodies, the
\* credentials file is left alone, and every route and store call is exercised.
LifecycleServices == {[kind |-> "list", v |-> l] : l \in {{"git"}, {"bsky", "gmail"}}}
LifecycleTtls == {[kind |-> "int", v |-> 0]}
\* <<inject_auth outcome, upstream outcome>>
LifecycleProxyOutcomes == {<<"token", "200">>, <<"raise", "200">>}
\* <<request input, git outcome>>
LifecycleGitCases ==
    {<<[json |-> TRUE, repo_url |-> <<"/">> \o U.tmp \o <<"/">> \o U.repo,
        branch |-> <<"x">>, bundle |-> TRUE, create_pr |-> FALSE], "ok">>,
     <<[json |-> TRUE,
        repo_url |-> U.https \o U.github \o <<"/">> \o U.user \o <<"/">> \o U.repo,
        branch |-> <<"x">>, bundle |-> TRUE, create_pr |-> FALSE],
       "clone_failed">>}
\* X-Auth-Key on the git routes: absent or the admin secret
LifecycleGitKeys == {NoHeader, SECRET_KEY}

Next ==
    \/ \E k \in AuthKeys, s \in LifecycleServices, t \in LifecycleTtls :
            CreateSession(k, s, t)
    \/ \E k \in AuthKeys, sid \in SidHeaders \ {NoHeader} : RevokeSession(k, sid)
    \/ \E sid \in SidHeaders, svc \in ProxyServices, c \in ProxyCalls,
          o \in LifecycleProxyOutcomes :
            ProxyRequest(sid, svc, c, o[1], o[2])
    \/ \E sid \in SidHeaders, k \in LifecycleGitKeys, c \in LifecycleGitCases :
            FetchBundle(sid, k, c[1], c[2])
    \/ \E sid \in SidHeaders, k \in LifecycleGitKeys, c \in LifecycleGitCases :
            PushBundle(sid, k, c[1], c[2])
    \/ \E sid \in SidHeaders \ {NoHeader} : StoreGet(sid)
    \/ \E sid \in SidHeaders \ {NoHeader}, svc \in StoreServices :
            StoreHasService(sid, svc)
    \/ StoreCleanupExpired
    \/ Tick

Spec == Init /\ [][Next]_vars

\* The ttl_minutes field: every kind of value, in otherwise valid requests.
NextTtl ==
    \/ \E s \in LifecycleServices, t \in TtlInputs : CreateSession(SECRET_KEY, s, t)
    \/ Tick

SpecTtl == Init /\ [][NextTtl]_vars

\* Session creation: every kind of key and services value, against a
\* credentials file that is edited while the server runs.
CreateTtls == {[kind |-> "int", v |-> 2], [kind |-> "inf", v |-> 0]}

NextCreate ==
    \/ \E k \in AuthKeys, s \in ServicesInputs, t \in CreateTtls : CreateSession(k, s, t)
    \/ \E k \in AuthKeys : ListServices(k)
    \/ \E c \in FileContents : EditFile(c)

SpecCreate == Init /\ [][NextCreate]_vars

\* One credential of either kind, its cache empty at first, used by several
\* threads while time passes.
InitToken ==
    /\ InitServer
    /\ last = NoResp
    /\ cred \in {NewCred(k, NoCache) : k \in {"atproto", "oauth2"}}

NextToken ==
    \/ \E c \in Callers : GetTokenCall(c)
    \/ \E c \in Callers : GetTokenEnter(c)
    \/ \E c \in Callers, r \in TokenResponses(cred.kind) : GetTokenRespond(c, r)
    \/ \E d \in TokenSleeps : Sleep(d)

SpecToken == InitToken /\ [][NextToken]_vars

\* Several threads ask at once for the token of a credential whose cached
\* token has expired.
ExpiredToken == [token |-> 1, expires_at |-> 0]

InitRefresh ==
    /\ InitServer
    /\ last = NoResp
    /\ cred \in {NewCred(k, ExpiredToken) : k \in {"atproto", "oauth2"}}

NextRefresh ==
    \/ \E c \in Callers : GetTokenCall(c)
    \/ \E c \in Callers : GetTokenEnter(c)
    \/ \E c \in Callers, r \in TokenResponses(cred.kind) : GetTokenRespond(c, r)

SpecRefresh == InitRefresh /\ [][NextRefresh]_vars

\* forward_request called on a request drawn at the start.
ForwardRequest(inject, upstream) ==
    LET cs == check_reload(credentials, last_mtime)
        fwd == forward_request(last.service, last.path,
                               last.service \in cs.credentials, inject, upstream)
        \* inject_auth on a credential with an empty cache: one call of the
        \* token endpoint, which stores a token, clears the cache or raises
        minted == [token |-> cred.minted + 1, expires_at |-> now + 60]
        got == reload_credential(cred, last_mtime)
    IN  /\ last.op = "forward_in"
        /\ credentials' = cs.credentials
        /\ last_mtime' = cs.last_mtime
        /\ cred' = IF ~fwd.injected THEN got
                   ELSE IF inject = "token"
                   THEN [got EXCEPT !.cache = minted, !.minted = @ + 1,
                                    !.net = @ + 1,
                                    !.tracked = @ \cup tracked_on(cred.kind, "refreshing",
                                                                  minted.token)]
                   ELSE IF inject = "no_token"
                   THEN [got EXCEPT !.cache = NoCache, !.net = @ + 1,
                                    !.failures = @ + 1]
                   ELSE [got EXCEPT !.net = @ + 1]
        /\ last' = [last EXCEPT !.op = "forward", !.status = fwd.status,
                       !.body = fwd.body, !.upstream = fwd.upstream,
                       !.injected = fwd.injected,
                       !.inject = inject, !.outcome = upstream,
                       !.up_headers =
                           IF fwd.upstream
                           THEN inject_auth(filter_request_headers(last.headers),
                                            inject)
                           ELSE {}]
        /\ UNCHANGED <<thr, tmp, sessions, next_sid, now, ticks, file, file_mtime,
                       expired_cb, created, revoked>>

\* forward_request on every kind of path, header set and upstream outcome.
\* credentials.json holds bsky, gmail and an entry "bare" whose base_url is
\* "https:".
InitForward ==
    /\ sessions = EmptyMap
    /\ next_sid = 1
    /\ now = 0
    /\ ticks = 0
    /\ file = [exists |-> TRUE, json |-> TRUE,
               entries |-> [name \in {"bsky", "gmail", "bare"} |->
                              IF name = "bare"
                              THEN [PlainEntry EXCEPT !.base_url = TRUE,
                                                      !.type = "oauth2"]
                              ELSE PlainEntry]]
    /\ file_mtime = 1
    /\ credentials = load(file)
    /\ last_mtime = 1
    /\ expired_cb = NoneFired
    /\ created = EmptyMap
    /\ revoked = {}
    /\ tmp = {}
    /\ thr = NoThreads
    /\ cred = NewCred("oauth2", NoCache)
    /\ last \in {[NoResp EXCEPT !.op = "forward_in", !.service = svc,
                     !.path = p, !.headers = h] :
                   svc \in ForwardServices, p \in ForwardPaths,
                   h \in SUBSET HeaderPool}

NextForward ==
    \E i \in InjectOutcomes, u \in UpstreamOutcomes : ForwardRequest(i, u)

SpecForward == InitForward /\ [][NextForward]_vars

\* The endpoint filter on every method, resource and trailing segments, with
\* and without the Gmail prefix.
InitFilter ==
    /\ InitServer
    /\ cred = NewCred("oauth2", NoCache)
    /\ last \in {[NoResp EXCEPT !.op = "filter_in", !.service = svc,
                     !.method = m, !.prefix = pre, !.segs = sg,
                     !.path = Join(pre \o sg)] :
                   svc \in FilterServices, m \in FilterMethods,
                   pre \in FilterPrefixes, sg \in FilterSegments}

NextFilter == FilterCall

SpecFilter == InitFilter /\ [][NextFilter]_vars

\* validate_repo_url on every URL of RepoUrls.
InitRepoUrl ==
    /\ InitServer
    /\ cred = NewCred("oauth2", NoCache)
    /\ last \in {[NoResp EXCEPT !.op = "repo_url_in", !.path = u] : u \in RepoUrls}

SpecRepoUrl == InitRepoUrl /\ [][ValidateRepoUrl]_vars

\* Branch names given to the two branch checks: well-formed, protected in
\* several spellings, malformed, of 255 and 256 characters, each also with
\* one more character put at its start, middle or end.
InitBranch ==
    LET feature == <<"f","e","a","t","u","r","e">>
        main == <<"m","a","i","n">>
        bodies ==
            PROTECTED_BRANCHES \cup
            {<<>>, <<"x">>, <<"_", "a">>, <<"a", "/">>, <<"-", "f">>,
             feature \o <<"-">> \o main, feature \o <<"/">> \o main,
             main \o <<"-">> \o feature,
             <<"M","a","i","n">>, <<"M","A","S","T","E","R">>, <<"D","e","v","e","l","o","p">>,
             <<"r","e","l","e","a","s","e",".","1",".","0">>,
             main \o <<".", ".">> \o feature,
             feature \o <<".","l","o","c","k">>,
             <<"r","e","f","s","/","h","e","a","d","s","/">> \o main,
             [i \in 1..255 |-> "a"], [i \in 1..256 |-> "a"]}
        extras == SHELL_METACHARACTERS \cup {" ", "\t", "@", "x"}
        insert(s, i, ch) == SubSeq(s, 1, i) \o <<ch>> \o SubSeq(s, i + 1, Len(s))
        names ==
            bodies \cup
            UNION {{insert(b, i, ch) :
                      i \in {0, Len(b) \div 2, Len(b)}, ch \in extras} :
                   b \in bodies}
    IN  /\ InitServer
        /\ cred = NewCred("oauth2", NoCache)
        /\ last \in {[NoResp EXCEPT !.op = "branch_in", !.path = b] : b \in names}

SpecBranch == InitBranch /\ [][CheckBranch]_vars

\* A credential of either kind whose cached token is good for two hours is
\* used by several threads while credentials.json is rewritten and the store
\* is asked for the credential.
InitReload ==
    /\ InitServer
    /\ last = NoResp
    /\ cred \in {NewCred(k, [token |-> 1, expires_at |-> 120]) :
                   k \in {"atproto", "oauth2"}}

NextReload ==
    \/ \E c \in 1..3 : GetTokenCall(c)
    \/ \E c \in 1..3 : GetTokenEnter(c)
    \/ \E c \in 1..3, r \in TokenResponses(cred.kind) : GetTokenRespond(c, r)
    \/ \E content \in FileContents : EditFile(content)
    \/ GetCredential("gmail")

SpecReload == InitReload /\ [][NextReload]_vars

\* inject_auth for every credential type, with and without a credential, a
\* custom header name or parameter name, on URLs with and without a query
\* string and on headers that may already hold the names it writes.
InitInject ==
    LET creds == [service_type : {"atproto", "bearer", "header", "oauth2", "query"},
                  credential : {<<>>, <<"k","1">>},
                  auth_header : {"", "X-Custom"},
                  query_param : {<<>>, <<"k","e","y">>}]
        pool == {<<"Content-Type", <<"j">>>>, <<"Authorization", <<"c">>>>,
                 <<"authorization", <<"c">>>>, <<"X-API-Key", <<"o">>>>,
                 <<"X-Custom", <<"o">>>>}
        urls == {<<"h",":","/","/","a","/","x">>,
                 <<"h",":","/","/","a","/","x","?","q","=","1">>}
    IN  /\ InitServer
        /\ cred = NewCred("oauth2", NoCache)
        /\ last \in {[NoResp EXCEPT !.op = "inject_in", !.credential = c,
                         !.headers = h, !.path = u] :
                       c \in creds, h \in SUBSET pool, u \in urls}

SpecInject == InitInject /\ [][\E token \in InjectOutcomes : InjectAuth(token)]_vars

\* Entries of credentials.json under the name of every known service and of
\* one that is not known: with or without base_url, with no type, every
\* supported type or an unsupported one, and with any of the keys the
\* inference looks at.
InitParse ==
    LET names == DOMAIN KNOWN_SERVICES \cup {"custom"}
        types == {"", "atproto", "bearer", "header", "query", "oauth2", "bogus"}
        keys == SUBSET {"identifier", "app_password", "refresh_token",
                        "token", "credential"}
        configs == [dict : BOOLEAN, base_url : BOOLEAN, type : types, keys : keys]
    IN  /\ InitServer
        /\ cred = NewCred("oauth2", NoCache)
        /\ last \in {[NoResp EXCEPT !.op = "parse_in", !.service = n, !.config = c] :
                        n \in names, c \in configs}

SpecParse == InitParse /\ [][ParseServiceConfig]_vars

\* Push command lists: git push origin followed by one or two arguments,
\* among them every dangerous flag, near misses of the flags, a lone colon
\* and colons at the start and in the middle of an argument.
InitPushCmd ==
    LET git == <<"g","i","t">>
        push == <<"p","u","s","h">>
        origin == <<"o","r","i","g","i","n">>
        feature == <<"f","e","a","t","u","r","e">>
        pool == DANGEROUS_PUSH_FLAGS \cup
                {feature, <<>>, <<":">>, <<":">> \o feature, <<":", ":">>,
                 feature \o <<":">> \o feature, feature \o <<":">>,
                 <<"-","-","f","o","r","c","e","d">>, <<"-","F">>,
                 <<"-","-","F","O","R","C","E">>, <<"-","-","f","o","r","c","e","=","1">>,
                 <<" ", ":">> \o feature}
        cmds == {<<git, push>>} \cup {<<git, push, a>> : a \in pool}
                \cup {<<git, push, origin, a>> : a \in pool}
                \cup {<<git, push, a, b>> : a \in pool, b \in pool}
    IN  /\ InitServer
        /\ cred = NewCred("oauth2", NoCache)
        /\ last \in {[NoResp EXCEPT !.op = "push_cmd_in", !.cmd = c] : c \in cmds}

SpecPushCmd == InitPushCmd /\ [][CheckPushCommand]_vars

\* One request to /git/fetch-bundle or /git/push-bundle, with or without the
\* admin key, on every input and every course of the subprocesses.
InitGit ==
    /\ InitServer
    /\ cred = NewCred("oauth2", NoCache)
    /\ last \in {[NoResp EXCEPT !.op = "fetch_in", !.key = k, !.input = i,
                     !.outcome = o] :
                   k \in LifecycleGitKeys, i \in FetchInputs, o \in FetchOutcomes}
               \cup
               {[NoResp EXCEPT !.op = "push_in", !.key = k, !.input = i,
                     !.outcome = o] :
                   k \in LifecycleGitKeys, i \in PushInputs, o \in PushOutcomes}

NextGit ==
    \/ last.op = "fetch_in" /\ FetchBundle(NoHeader, last.key, last.input, last.outcome)
    \/ last.op = "push_in" /\ PushBundle(NoHeader, last.key, last.input, last.outcome)

SpecGit == InitGit /\ [][NextGit]_vars

\* The credentials file is rewritten and removed while get and list_services
\* are called.
NextStore ==
    \/ \E content \in StoreFiles : EditFile(content)
    \/ \E service \in {"bsky", "gmail", "custom"} : GetCredential(service)
    \/ ListServices(SECRET_KEY)
    \/ DeleteFile

SpecStore == Init /\ [][NextStore]_vars

(***************************************************************************)
(* SessionStore under concurrent threads                                   *)
(***************************************************************************)
store_lock_ignored(lock) == TRUE

\* SessionStore._lock can be taken: no thread is inside a store method.
store_lock_free(lock) == lock = 0

\* Thread t enters a store method on the session "sid-1": it takes the lock
\* and reads the session map.
StoreBegin(t, op) ==
    /\ thr.pc[t] = "idle"
    /\ store_lock_free(thr.lock)
    /\ thr' = [thr EXCEPT !.lock = t, !.pc[t] = "in", !.op[t] = op,
                          !.snap[t] = sessions,
                          !.after[t] = SidNames[1] \in revoked]
    /\ last' = [NoResp EXCEPT !.op = "store_begin", !.sid = SidNames[1]]
    /\ UNCHANGED <<sessions, next_sid, now, ticks, credentials, last_mtime,
                   file, file_mtime, expired_cb, created, revoked, cred, tmp>>

\* Thread t finishes its store method: it acts on the map it read, deletes
\* what the method deletes, invokes the callbacks, releases the lock and
\* returns.
StoreEnd(t) ==
    /\ thr.pc[t] = "in"
    /\ LET S == thr.snap[t]
           sid == SidNames[1]
           op == thr.op[t]
           r == CASE op = "get" ->
                       LET g == store_get(S, sid, now)
                       IN  [sessions |-> g.sessions, fired |-> g.fired,
                            result |-> g.found]
                  [] op = "has_service" -> store_has_service(S, sid, "git", now)
                  [] op = "cleanup_expired" ->
                       LET c == cleanup_expired(S, now)
                       IN  [sessions |-> c.sessions, fired |-> c.fired,
                            result |-> c.result > 0]
                  [] op = "revoke" ->
                       LET v == store_revoke(S, sid)
                       IN  [sessions |-> v.sessions, fired |-> NoneFired,
                            result |-> v.result]
           gone == (DOMAIN S) \ (DOMAIN r.sessions)
       IN  /\ sessions' = [k \in (DOMAIN sessions) \ gone |-> sessions[k]]
           /\ expired_cb' = on_session_expired(expired_cb, r.fired)
           /\ revoked' = IF op = "revoke" /\ r.result
                         THEN revoked \cup {sid} ELSE revoked
           /\ thr' = [thr EXCEPT !.lock = 0, !.pc[t] = "done",
                                 !.ret[t] = r.result,
                                 !.removals = @ + Cardinality(gone)]
           /\ last' = [NoResp EXCEPT !.op = "store_end", !.sid = sid,
                          !.result = r.result,
                          !.fired = CallbackCount(r.fired)]
    /\ UNCHANGED <<next_sid, now, ticks, credentials, last_mtime, file,
                   file_mtime, created, cred, tmp>>

\* One session for the git service with the shortest lifetime exists when the
\* threads start.
InitThreads ==
    /\ sessions = store_create(EmptyMap, SidNames[1], {"git"}, MIN_TTL, 0)
    /\ created = sessions
    /\ next_sid = 2
    /\ now = 0
    /\ ticks = 0
    /\ file = [exists |-> TRUE, json |-> TRUE,
               entries |-> [name \in {"bsky", "gmail"} |-> PlainEntry]]
    /\ file_mtime = 1
    /\ credentials = {"bsky", "gmail"}
    /\ last_mtime = 1
    /\ expired_cb = NoneFired
    /\ revoked = {}
    /\ tmp = {}
    /\ thr = NoThreads
    /\ last = NoResp
    /\ cred = NewCred("oauth2", NoCache)

NextThreads ==
    \/ \E t \in 1..MaxThreads :
         \E op \in {"get", "has_service", "cleanup_expired", "revoke"} :
           StoreBegin(t, op)
    \/ \E t \in 1..MaxThreads : StoreEnd(t)
    \/ Tick

SpecThreads == InitThreads /\ [][NextThreads]_vars

(***************************************************************************)
(* The locks taken by concurrent request handlers                          *)
(***************************************************************************)
\* One lock for everything the server guards.
lock_of_global(resource) == "store"

\* The lock that guards a resource: SessionStore._lock ("sessions"),
\* CredentialStore._lock ("store"), AuditLog._lock ("audit") and, for the
\* ServiceCredential of each service, the token lock that its own
\* default_factory made (_session_lock or _oauth2_lock, named by the service).
lock_of(resource) == resource

\* acquire() on a threading.Lock in every place.
lock_available_plain(lock, name, t) == lock[name].owner = 0

\* acquire() returns at once: the lock is free, or it is CredentialStore._lock
\* (a threading.RLock) and the asking thread already owns it.
lock_available(lock, name, t) ==
    \/ lock[name].owner = 0
    \/ name = "store" /\ lock[name].owner = t

\* Every lock is free, no handler has started and no token is cached.
NoLocks ==
    [lock    |-> [n \in {"sessions", "store", "audit", "bsky", "gmail"} |->
                     [owner |-> 0, depth |-> 0]],
     pc      |-> [t \in 1..MaxHandlers |-> "idle"],
     op      |-> [t \in 1..MaxHandlers |-> ""],
     service |-> [t \in 1..MaxHandlers |-> ""],
     gets    |-> [t \in 1..MaxHandlers |-> 0],
     calls   |-> [t \in 1..MaxHandlers |-> 0],
     during  |-> [t \in 1..MaxHandlers |-> {}],
     fresh   |-> [s \in {"bsky", "gmail"} |-> FALSE]]

\* The lock that thread t is about to acquire ("" when it is not at an
\* acquire): session_store.get, CredentialStore.get / list_services, the
\* nested _check_reload and reload, _get_atproto_token / _get_oauth2_token,
\* AuditLog._write.
wanted(t) ==
    CASE thr.pc[t] = "sessions" -> lock_of("sessions")
      [] thr.pc[t] \in {"get", "check", "reload"} -> lock_of("store")
      [] thr.pc[t] = "token" -> lock_of(thr.service[t])
      [] thr.pc[t] = "audit" -> lock_of("audit")
      [] OTHER -> ""

\* The locks that thread t owns.
held_by(t) == {n \in DOMAIN thr.lock : thr.lock[n].owner = t}

\* A handler starts on thread t: /proxy/<service>/... or GET /services.
HandlerBegin(t, op, service) ==
    /\ thr.pc[t] = "idle"
    /\ thr' = [thr EXCEPT !.pc[t] = IF op = "proxy" THEN "sessions" ELSE "get",
                          !.op[t] = op, !.service[t] = service,
                          !.during[t] = {u \in 1..MaxHandlers :
                                            thr.pc[u] = "network"}]
    /\ UNCHANGED <<sessions, next_sid, now, ticks, credentials, last_mtime,
                   file, file_mtime, expired_cb, created, revoked, last, cred,
                   tmp>>

\* Thread t gets the lock it is waiting for and goes on inside it.
LockAcquire(t) ==
    /\ wanted(t) # ""
    /\ lock_available(thr.lock, wanted(t), t)
    /\ thr' = [thr EXCEPT
                 !.lock[wanted(t)] = [owner |-> t, depth |-> @.depth + 1],
                 !.gets[t] = IF thr.pc[t] = "get" THEN @ + 1 ELSE @,
                 !.pc[t] = CASE thr.pc[t] = "sessions" -> "lookup"
                             [] thr.pc[t] = "get" -> "check"
                             [] thr.pc[t] = "check" -> "mtime"
                             [] thr.pc[t] = "reload" -> "load"
                             [] thr.pc[t] = "token" -> "cache"
                             [] thr.pc[t] = "audit" -> "write"]
    /\ UNCHANGED <<sessions, next_sid, now, ticks, credentials, last_mtime,
                   file, file_mtime, expired_cb, created, revoked, last, cred,
                   tmp>>

\* _check_reload inside its "with self._lock": the file's mtime is compared
\* with _last_mtime and reload() is called when they differ.
ReadMtime(t) ==
    /\ thr.pc[t] = "mtime"
    /\ thr' = [thr EXCEPT !.pc[t] = IF file.exists /\ file_mtime # last_mtime
                                    THEN "reload" ELSE "checked"]
    /\ UNCHANGED <<sessions, next_sid, now, ticks, credentials, last_mtime,
                   file, file_mtime, expired_cb, created, revoked, last, cred,
                   tmp>>

\* Thread t leaves a "with" block and releases its lock: the session lookup
\* ends, reload() has cleared and loaded the credentials, _check_reload
\* returns, get / list_services returns (proxy_request calls get and then
\* forward_request calls it again; a service that is no longer configured
\* is answered with 404 and no token is asked for), _write has written.
LockRelease(t) ==
    /\ thr.pc[t] \in {"lookup", "load", "checked", "return", "write"}
    /\ LET name == CASE thr.pc[t] = "lookup" -> lock_of("sessions")
                     [] thr.pc[t] = "write" -> lock_of("audit")
                     [] OTHER -> lock_of("store")
           loaded == IF thr.pc[t] = "load" THEN load(file) ELSE credentials
       IN  /\ thr' = [thr EXCEPT
                        !.lock[name] = IF @.depth = 1
                                       THEN [owner |-> 0, depth |-> 0]
                                       ELSE [owner |-> t, depth |-> @.depth - 1],
                        !.pc[t] = CASE thr.pc[t] = "lookup" -> "get"
                                    [] thr.pc[t] = "load" -> "checked"
                                    [] thr.pc[t] = "checked" -> "return"
                                    [] thr.pc[t] = "write" -> "done"
                                    [] thr.pc[t] = "return" ->
                                         IF thr.op[t] = "services" THEN "done"
                                         ELSE IF thr.gets[t] < 2 THEN "get"
                                         ELSE IF thr.service[t] \in credentials
                                         THEN "token" ELSE "audit"]
           /\ credentials' = loaded
           /\ last_mtime' = IF thr.pc[t] = "load" THEN file_mtime ELSE last_mtime
    /\ UNCHANGED <<sessions, next_sid, now, ticks, file, file_mtime,
                   expired_cb, created, revoked, last, cred, tmp>>

\* _get_atproto_token / _get_oauth2_token inside the token lock: a cached
\* token that is still good is returned and the lock released; otherwise the
\* thread posts to the token endpoint with the lock held.
ReadCache(t) ==
    /\ thr.pc[t] = "cache"
    /\ thr' = IF thr.fresh[thr.service[t]]
              THEN [thr EXCEPT !.pc[t] = "audit",
                               !.lock[lock_of(thr.service[t])] =
                                   IF @.depth = 1
                                   THEN [owner |-> 0, depth |-> 0]
                                   ELSE [owner |-> t, depth |-> @.depth - 1]]
              ELSE [thr EXCEPT !.pc[t] = "network", !.calls[t] = @ + 1]
    /\ UNCHANGED <<sessions, next_sid, now, ticks, credentials, last_mtime,
                   file, file_mtime, expired_cb, created, revoked, last, cred,
                   tmp>>

\* requests.post(..., timeout=10) returns or raises: the token is cached when
\* the endpoint answered with one, and the "with" block releases the lock.
NetworkReply(t, ok) ==
    /\ thr.pc[t] = "network"
    /\ thr' = [thr EXCEPT !.pc[t] = "audit",
                          !.fresh[thr.service[t]] = ok,
                          !.lock[lock_of(thr.service[t])] =
                              IF @.depth = 1
                              THEN [owner |-> 0, depth |-> 0]
                              ELSE [owner |-> t, depth |-> @.depth - 1]]
    /\ UNCHANGED <<sessions, next_sid, now, ticks, credentials, last_mtime,
                   file, file_mtime, expired_cb, created, revoked, last, cred,
                   tmp>>

\* The cached token of a service comes within five minutes of its expiry.
TokenExpires(service) ==
    /\ thr.fresh[service]
    /\ thr' = [thr EXCEPT !.fresh[service] = FALSE]
    /\ UNCHANGED <<sessions, next_sid, now, ticks, credentials, last_mtime,
                   file, file_mtime, expired_cb, created, revoked, last, cred,
                   tmp>>

\* What thread t does once its handler has started.
HandlerStep(t) ==
    \/ LockAcquire(t)
    \/ ReadMtime(t)
    \/ LockRelease(t)
    \/ ReadCache(t)
    \/ \E ok \in BOOLEAN : NetworkReply(t, ok)

\* The server after construction, with a session that every handler presents.
InitLocks ==
    /\ sessions = store_create(EmptyMap, SidNames[1], {"bsky", "gmail"}, MAX_TTL, 0)
    /\ created = sessions
    /\ next_sid = 2
    /\ now = 0
    /\ ticks = 0
    /\ file = [exists |-> TRUE, json |-> TRUE,
               entries |-> [name \in {"bsky", "gmail"} |-> PlainEntry]]
    /\ file_mtime = 1
    /\ credentials = load(file)
    /\ last_mtime = 1
    /\ expired_cb = NoneFired
    /\ revoked = {}
    /\ tmp = {}
    /\ last = NoResp
    /\ cred = NewCred("oauth2", NoCache)
    /\ thr = NoLocks

NextLocks ==
    \/ \E t \in 1..MaxHandlers :
         \E call \in {<<"proxy", "bsky">>, <<"proxy", "gmail">>,
                      <<"services", "">>} :
           HandlerBegin(t, call[1], call[2])
    \/ \E t \in 1..MaxHandlers : HandlerStep(t)
    \/ \E service \in {"bsky", "gmail"} : TokenExpires(service)
    \/ \E content \in FileContents : EditFile(content)

SpecLocks == InitLocks /\ [][NextLocks]_vars

\* Every thread that can take a step is scheduled, and a post to a token
\* endpoint ends within its timeout.
SpecLocksFair ==
    SpecLocks /\ \A t \in 1..MaxHandlers : WF_vars(HandlerStep(t))

(***************************************************************************)
(* Properties                                                              *)
(***************************************************************************)
\* From the history alone: sid was issued, SessionStore.revoke never returned
\* True for it and the clock has not passed its expires_at.
Live(sid) ==
    /\ sid \in DOMAIN created
    /\ sid \notin revoked
    /\ now <= created[sid].expires_at

\* Live(sid) and the service was in the list given at creation.
Scoped(sid, service) == Live(sid) /\ service \in created[sid].services

\* C1: a request to /proxy/<service>/<path> with a service other than git is
\* handed to the forwarder exactly when its X-Session-Id names a session that
\* exists, is not expired and has the service in its set; a missing header or
\* an unknown, expired or revoked session gives 401 and a valid session
\* without the service gives 403.
C1_ProxyNeedsScopedSession ==
    (last.op = "proxy" /\ last.service # "git") =>
        /\ last.handed <=> Scoped(last.sid, last.service)
        /\ last.handed =>
              /\ last.sid \in DOMAIN sessions
              /\ ~is_expired(sessions[last.sid], now)
              /\ session_has_service(sessions[last.sid], last.service)
        /\ ~Live(last.sid) => last.status = 401
        /\ (Live(last.sid) /\ ~Scoped(last.sid, last.service)) => last.status = 403

\* A proxied request reached the forwarder after another session was revoked.
C1_Witness ==
    /\ last.op = "proxy"
    /\ last.handed
    /\ last.service = "bsky"
    /\ revoked # {}

\* C2: a proxied Gmail request whose method and path the endpoint filter
\* denies is never forwarded upstream.
C2_FilterBeforeForward ==
    (/\ last.op = "proxy"
     /\ ~validate_proxy_request(last.service, last.method, last.path).allowed)
        => ~last.upstream

\* C3 as stated: once DELETE /sessions/{id} has returned 200, every request
\* that authenticates only with that id gets 401 on /proxy/<service>/...,
\* /git/fetch-bundle and /git/push-bundle.
C3_RevokedGets401 ==
    (/\ last.op \in {"proxy", "fetch", "push"}
     /\ last.sid \in revoked
     /\ ~verify_auth(last.key))
        => last.status = 401

\* C3 amended: a revoked id is never in the store again, and a request that
\* authenticates only with it gets 401 on the git endpoints and on
\* /proxy/<service>/... for every service but git, where it gets the 400 that
\* the route gives to the service name git before it looks at the session.
C3_RevokedStaysRejected ==
    /\ revoked \cap DOMAIN sessions = {}
    /\ (/\ last.op \in {"proxy", "fetch", "push"}
        /\ last.sid \in revoked
        /\ ~verify_auth(last.key))
           => /\ last.status =
                    IF last.op = "proxy" /\ last.service = "git" THEN 400 ELSE 401
              /\ ~last.handed
              /\ ~last.read_input

\* /git/fetch-bundle was asked with a revoked session id and no admin key.
C3_Witness ==
    /\ last.op = "fetch"
    /\ last.sid \in revoked
    /\ last.key = NoHeader
    /\ last.status = 401

\* C4: SessionStore.has_service(session_id, service) is true exactly when the
\* session exists, was not revoked, is not past expires_at and the service was
\* in the list given at creation; the service set of a stored session is the
\* one it was created with.
C4_HasServiceIffScoped ==
    /\ last.op = "has_service" =>
          (last.result <=> Scoped(last.sid, last.service))
    /\ \A sid \in DOMAIN sessions :
          /\ sid \in DOMAIN created
          /\ sessions[sid].services = created[sid].services

\* has_service answered true for one session after another was revoked.
C4_Witness ==
    /\ last.op = "has_service"
    /\ last.result
    /\ revoked # {}

C6_RevokeOnce ==
    [][(last'.op = "revoke" /\ verify_auth(last'.key)) =>
          LET sid == last'.sid
              held == sid \in DOMAIN sessions
          IN  /\ last'.result <=> held
              /\ last'.status = IF held THEN 200 ELSE 404
              /\ sid \notin DOMAIN sessions'
              /\ sessions' = Remove(sessions, sid)
              /\ ~held => sessions' = sessions
              /\ (sid \in revoked \/ sid \notin DOMAIN created) =>
                    /\ ~last'.result
                    /\ last'.status = 404
                    /\ sessions' = sessions]_vars

\* A second DELETE of a session that was revoked before answered 404.
C6_Witness ==
    /\ last.op = "revoke"
    /\ last.sid \in revoked
    /\ ~last.result
    /\ last.status = 404

\* C7: for every ttl_minutes value sent to POST /sessions with a valid admin
\* key and valid services, a session is created whose lifetime and
\* expires_in_minutes are in [1, 480]: a value below 1 gives 1, a value above
\* 480 gives 480, a value in the range is kept and a value that is not
\* convertible to an integer gives 30; the stored session has
\* expires_at > created_at.
C7_TtlAlwaysClamped ==
    (/\ last.op = "create"
     /\ verify_auth(last.key)
     /\ last.services_in \in LifecycleServices) =>
        /\ last.status = 200
        /\ last.expires_in \in MIN_TTL..MAX_TTL
        /\ last.expires_in =
              IF last.ttl_in.kind = "int"
              THEN (IF last.ttl_in.v < MIN_TTL THEN MIN_TTL
                    ELSE IF last.ttl_in.v > MAX_TTL THEN MAX_TTL
                    ELSE last.ttl_in.v)
              ELSE DEFAULT_TTL
        /\ last.new_sid \in DOMAIN sessions
        /\ sessions[last.new_sid].expires_at
              = sessions[last.new_sid].created_at + last.expires_in
        /\ sessions[last.new_sid].expires_at > sessions[last.new_sid].created_at

\* C8: POST /sessions creates a session only when the X-Auth-Key is the server
\* secret, services is a non-empty list and every listed service is
\* configured or is git; otherwise it answers 401 (bad or missing key) or 400
\* (missing, non-list or unknown services) and creates nothing.
C8_CreateRejectsWith401Or400 ==
    (last.op = "create" /\ last.ttl_in.kind = "int") =>
        LET key_ok == verify_auth(last.key)
            services_ok == /\ last.services_in.kind = "list"
                           /\ last.services_in.v # {}
                           /\ last.services_in.v \subseteq (load(file) \cup {"git"})
        IN  /\ last.status = 200 <=> (key_ok /\ services_ok)
            /\ ~key_ok => last.status = 401
            /\ (key_ok /\ ~services_ok) => last.status = 400
            /\ last.status # 200 => last.new_sid = None

C10_AdminKeyAloneRejected ==
    (/\ last.op \in {"fetch", "push"}
     /\ verify_auth(last.key)
     /\ ~Scoped(last.sid, "git"))
        => last.status = 401

\* C11: a get-token call that finds a cached token with expires_at more than
\* 5 minutes ahead returns that token and issues no network call; a call that
\* finds a cached token with expires_at at most 5 minutes ahead issues exactly
\* one network call, and the token it returns is the new content of the cache.
C11_OneCallWhenStale ==
    last.op = "token" =>
        /\ last.saw = "fresh" =>
              /\ last.calls = 0
              /\ last.token # NoToken
              /\ last.token = cred.cache.token
        /\ last.saw = "stale" =>
              /\ last.calls = 1
              /\ last.token # NoToken => last.token = cred.cache.token

\* C12: when the refresh call of a get-token call fails, the cache is cleared
\* and that same call returns None without any further network call.
C12_FailedRefreshReturnsNone ==
    (last.op = "token" /\ last.refresh_failed) =>
        /\ last.token = NoToken
        /\ cred.cache = NoCache
        /\ last.calls = 1

\* C13 as stated: at most one token network call of a credential is in
\* flight at any time, and when several threads ask at once for the token of
\* an expired cached credential and no call fails, at most 2 upstream calls
\* are issued and every caller gets a token.
C13_AtMostTwoRefreshes ==
    /\ Cardinality(InFlight) <= 1
    /\ cred.failures = 0 =>
          /\ cred.net <= 2
          /\ \A c \in Callers : cred.pc[c] = "done" => cred.token[c] # NoToken

\* C13 amended: at most one token network call of a credential is in flight
\* at any time and its caller holds the lock; when several threads ask at
\* once for the token of an expired cached credential, no call fails and
\* every token granted lives longer than the 5-minute buffer, one upstream
\* call is issued and every caller gets a token, the one now in the cache.
C13_OneRefreshInFlight ==
    /\ Cardinality(InFlight) <= 1
    /\ \A c \in InFlight : cred.lock = c
    /\ (cred.failures = 0 /\ cred.shorts = 0) =>
          /\ cred.net <= 1
          /\ \A c \in Callers :
                cred.pc[c] = "done" =>
                    /\ cred.token[c] # NoToken
                    /\ cred.token[c] = cred.cache.token

\* Every thread has its token after a single upstream call.
C13_Witness ==
    /\ \A c \in Callers : cred.pc[c] = "done" /\ cred.token[c] # NoToken
    /\ \A c \in Callers : cred.saw[c] \in {"stale", "fresh"}
    /\ cred.net = 1
    /\ cred.failures = 0

\* C14: for a known service, forward_request answers 400 "path traversal
\* detected", without calling upstream, for every path whose raw or
\* URL-decoded form contains ".."; a path without ".." that leaves the host
\* of the target the credential's, and whose upstream call answers 200,
\* yields 200.
C14_TraversalRejected ==
    (last.op = "forward" /\ last.service \in credentials) =>
        LET dotdot == \/ Contains(last.path, <<".", ".">>)
                      \/ Contains(unquote(last.path), <<".", ".">>)
            base == RStripSlash(base_url_of(last.service))
            same_host == netloc(base \o <<"/">> \o last.path) = netloc(base)
        IN  /\ dotdot =>
                  /\ last.status = 400
                  /\ last.body = {"path traversal detected"}
                  /\ ~last.upstream
            /\ (~dotdot /\ same_host /\ last.inject # "raise"
                  /\ last.outcome = "200") =>
                  /\ last.status = 200
                  /\ last.upstream

\* The path %2e%2e/x was refused.
C14_Witness ==
    /\ last.op = "forward"
    /\ last.service = "bsky"
    /\ last.path = <<"%","2","e","%","2","e","/","x">>
    /\ last.status = 400

\* C15: the headers of the upstream request are the inbound headers whose
\* lower-cased name is in the allowlist plus what inject_auth adds, and any
\* inbound request that differs only in headers outside the allowlist gives
\* the same upstream headers.
C15_OnlyAllowlistedHeaders ==
    (last.op = "forward" /\ last.upstream) =>
        /\ \A h \in last.up_headers :
              \/ h \in last.headers /\ Lower(h[1]) \in ALLOWED_FORWARD_HEADERS
              \/ last.inject = "token" /\ h = <<"Authorization", "Bearer token">>
        /\ \A h \in last.headers :
              Lower(h[1]) \in ALLOWED_FORWARD_HEADERS => h \in last.up_headers
        /\ \A other \in SUBSET HeaderPool :
              ({h \in other : Lower(h[1]) \in ALLOWED_FORWARD_HEADERS}
                 = {h \in last.headers : Lower(h[1]) \in ALLOWED_FORWARD_HEADERS})
              => inject_auth(filter_request_headers(other), last.inject)
                    = last.up_headers

\* A request carrying Authorization, Cookie and X-Session-Id went upstream
\* with its Content-Type only.
C15_Witness ==
    /\ last.op = "forward"
    /\ last.upstream
    /\ last.inject = "no_token"
    /\ {<<"Authorization", "Bearer client">>, <<"Cookie", "id=1">>,
        <<"X-Session-Id", "sid-1">>, <<"Content-Type", "application/json">>}
          \subseteq last.headers
    /\ last.up_headers \cap HeaderPool = {<<"Content-Type", "application/json">>}

\* C16: forward_request answers 404 for an unknown service, 504 when the
\* upstream call times out, 502 when the connection fails and 500 with the
\* fixed generic body, free of the exception's text, for any other exception
\* of the upstream call.
C16_FailureMapping ==
    last.op = "forward" =>
        /\ last.service \notin credentials =>
              last.status = 404 /\ ~last.upstream
        /\ (last.upstream /\ last.outcome = "timeout") =>
              last.status = 504 /\ last.body = {"upstream timeout"}
        /\ (last.upstream /\ last.outcome = "connection") =>
              last.status = 502 /\ last.body = {"upstream connection failed"}
        /\ (last.upstream /\ last.outcome = "error") =>
              /\ last.status = 500
              /\ last.body = GenericBody
              /\ ExcText \notin last.body

\* An upstream call raised an exception that is neither a timeout nor a
\* connection error.
C16_Witness ==
    /\ last.op = "forward"
    /\ last.upstream
    /\ last.outcome = "error"
    /\ last.status = 500

\* The request names a resource under gmail/v1/users/{userId}/.
GmailRequest ==
    /\ last.op = "filter"
    /\ last.prefix = <<W.gmail, W.v1, W.users, W.me>>
    /\ last.segs # <<>>
    /\ last.segs[1] # <<>>

\* C17: validate_gmail_endpoint denies, before any allow rule is looked at,
\* every path whose last segment is send, every path under settings, DELETE
\* on messages or threads, every path ending in batchDelete, POST to bare
\* messages and every path under messages/import.
C17_BlockRulesFirst ==
    GmailRequest =>
        LET segs == last.segs
            resource == segs[1]
            last_segment == segs[Len(segs)]
            method == Upper(last.method)
            blocked ==
                \/ last_segment = W.send
                \/ resource = W.settings
                \/ method = "DELETE" /\ resource \in {W.messages, W.threads}
                \/ last_segment = W.batchDelete
                \/ method = "POST" /\ segs = <<W.messages>>
                \/ Len(segs) >= 2 /\ segs[1] = W.messages /\ segs[2] = W.import
        IN  blocked => (~last.result /\ last.reason \notin {"", "not in allowlist"})

\* GET on drafts/{id}/send was denied.
C17_Witness ==
    /\ GmailRequest
    /\ last.method = "GET"
    /\ last.segs = <<W.drafts, W.id, W.send>>
    /\ ~last.result

\* C18: validate_gmail_endpoint allows a request only when its first
\* resource segment is messages, threads, drafts, labels, profile or history;
\* every request on another resource is denied whatever its method and
\* trailing segments, and so is a path without the gmail/v1/users/{id}/
\* prefix or without a resource.
C18_FailClosed ==
    last.op = "filter" =>
        /\ last.result =>
              /\ GmailRequest
              /\ last.segs[1] \in GMAIL_KNOWN_RESOURCES \ {W.settings}
        /\ (GmailRequest /\ last.segs[1] \notin GMAIL_KNOWN_RESOURCES) =>
              (~last.result /\ last.reason = "not in allowlist")
        /\ ~GmailRequest => ~last.result

\* C19: POST batch/gmail/v1 is allowed by validate_gmail_endpoint with an
\* empty reason, and by validate_proxy_request for gmail and gmail_*
\* services; every other method on batch/gmail/v1 and POST batch/gmail/v2 are
\* denied.
C19_BatchEndpoint ==
    (last.op = "filter" /\ last.segs = <<>>) =>
        /\ (last.prefix = <<W.batch, W.gmail, W.v1>> /\ Upper(last.method) = "POST") =>
              /\ last.result
              /\ last.reason = ""
              /\ last.service \in {"gmail", "gmail_work"} => last.dispatch
        /\ (last.prefix = <<W.batch, W.gmail, W.v1>> /\ Upper(last.method) # "POST") =>
              ~last.result
        /\ last.prefix = <<W.batch, W.gmail, W.v2>> => ~last.result

\* C20: validate_repo_url accepts, with an empty reason, only a string of the
\* exact form https://github.com/<owner>/<repo>[.git] or
\* git@github.com:<owner>/<repo>[.git]; it rejects with a reason the empty
\* and the whitespace-only string, every string with a shell metacharacter
\* anywhere, every string with an @ that does not start with git@, and every
\* string that starts with /, . or file://.
C20_RepoUrlExactForm ==
    last.op = "repo_url" =>
        LET url == last.path
            exact_form ==
                /\ \/ github_pattern(url, U.https \o U.github \o <<"/">>)
                   \/ github_pattern(url, U.git_at \o U.github \o <<":">>)
                /\ url[Len(url)] # "\n"
            rejected == ~last.result /\ last.reason # ""
        IN  /\ last.result => (url # <<>> /\ exact_form /\ last.reason = "")
            /\ ~last.result => last.reason # ""
            /\ (\A i \in 1..Len(url) : url[i] \in WHITESPACE) => rejected
            /\ (\E i \in 1..Len(url) : url[i] \in SHELL_METACHARACTERS) => rejected
            /\ ((\E i \in 1..Len(url) : url[i] = "@") /\ ~StartsWith(url, U.git_at))
                  => rejected
            /\ (StartsWith(url, <<"/">>) \/ StartsWith(url, <<".">>)
                  \/ StartsWith(url, U.file)) => rejected

\* C21: validate_branch_name accepts, with an empty reason, only a name of at
\* most 255 characters that matches
\* [A-Za-z0-9][A-Za-z0-9._/-]*[A-Za-z0-9] or is one alphanumeric character,
\* does not start with -, does not contain .., does not end with .lock and
\* does not start with refs/; the empty name and every name with a shell
\* metacharacter are rejected with a reason; 255 times "a" is accepted and
\* 256 times "a" is rejected.
C21_BranchNameWellFormed ==
    last.op = "branch" =>
        LET b == last.path
            alnum(ch) == ch \in NAME_CHARS \ {".", "_", "-"}
            well_formed ==
                /\ b # <<>>
                /\ Len(b) <= 255
                /\ alnum(b[1]) /\ alnum(b[Len(b)])
                /\ \A i \in 1..Len(b) : b[i] \in NAME_CHARS \cup {"/"}
                /\ ~Contains(b, <<".", ".">>)
                /\ ~(Len(b) >= 5 /\ SubSeq(b, Len(b) - 4, Len(b)) = <<".","l","o","c","k">>)
                /\ ~StartsWith(b, <<"r","e","f","s","/">>)
            rejected == ~last.result /\ last.reason # ""
        IN  /\ last.result => (well_formed /\ last.reason = "")
            /\ b = <<>> => rejected
            /\ (\E i \in 1..Len(b) : b[i] \in SHELL_METACHARACTERS) => rejected
            /\ b = [i \in 1..255 |-> "a"] => last.result
            /\ b = [i \in 1..256 |-> "a"] => rejected

\* C22: is_protected_branch answers protected, with a reason, exactly for the
\* empty name and for the names that, trimmed and lower-cased, are main,
\* master, production, release or develop; feature/main and main-feature are
\* not protected and get an empty reason.
C22_ProtectedExactly ==
    last.op = "branch" =>
        LET b == last.path
        IN  /\ last.protected <=> (b = <<>> \/ lower(strip(b)) \in PROTECTED_BRANCHES)
            /\ last.protected <=> last.why # ""
            /\ b \in {<<"f","e","a","t","u","r","e","/","m","a","i","n">>,
                      <<"m","a","i","n","-","f","e","a","t","u","r","e">>}
                  => ~last.protected

\* "Main" followed by a blank was found protected.
C22_Witness ==
    /\ last.op = "branch"
    /\ last.path = <<"M","a","i","n"," ">>
    /\ last.protected
    /\ last.why # ""

\* C29: every access token a get-token call has returned was reported to the
\* redaction tracker, whether it came from createSession or from a refresh,
\* and for atproto the refresh JWT minted with it was reported too.
C29_ReturnedTokensTracked ==
    \A c \in Callers :
        cred.token[c] # NoToken =>
            /\ cred.token[c] \in cred.tracked
            /\ cred.kind = "atproto" => (0 - cred.token[c]) \in cred.tracked

\* An atproto call that found a stale session got its token from a refresh
\* that succeeded.
C29_Witness ==
    /\ last.op = "token"
    /\ cred.kind = "atproto"
    /\ last.saw = "stale"
    /\ ~last.refresh_failed
    /\ last.token # NoToken
    /\ last.token \in cred.tracked

\* C23: /git/push-bundle starts no git subprocess and creates no temporary
\* file unless validate_repo_url and validate_branch_name accepted the inputs
\* and is_protected_branch answered false; an invalid URL or branch gets 400,
\* a protected branch 403, and git push never runs for a branch that is,
\* whatever its case, main, master, production, release or develop.
C23_PushValidatedFirst ==
    last.op = "push" =>
        LET url_ok == validate_repo_url(last.input.repo_url).allowed
            branch_ok == validate_branch_name(last.input.branch).allowed
            protected == is_protected_branch(last.input.branch).protected
        IN  /\ (last.ran # {} \/ last.made > 0) =>
                  (url_ok /\ branch_ok /\ ~protected)
            /\ (last.auth_type # None /\ (~url_ok \/ ~branch_ok)) => last.status = 400
            /\ (last.auth_type # None /\ url_ok /\ branch_ok /\ protected) =>
                  last.status = 403
            /\ "push" \in last.ran =>
                  lower(strip(last.input.branch)) \notin PROTECTED_BRANCHES

\* A push to "Main " with the admin key, a GitHub URL and a bundle was refused
\* with 403 before anything was run or created.
C23_Witness ==
    /\ last.op = "push"
    /\ last.auth_type # None
    /\ last.input.branch = <<"M","a","i","n"," ">>
    /\ last.input.bundle
    /\ validate_repo_url(last.input.repo_url).allowed
    /\ last.status = 403
    /\ last.ran = {}
    /\ last.made = 0

\* C24: whichever way /git/fetch-bundle or /git/push-bundle ends, no
\* temporary directory or bundle file that the request created is on disk
\* afterwards.
C24_NoTempLeftBehind ==
    last.op \in {"fetch", "push"} => tmp = {}

\* C25: once git push has succeeded in a /git/push-bundle request with
\* create_pr=true, the answer is 200, and when the gh CLI is absent or the PR
\* command fails in any way it carries pr_created=false and a manual PR URL.
C25_PrFailureStill200 ==
    (last.op = "push" /\ last.pushed /\ last.input.create_pr) =>
        /\ last.status = 200
        /\ last.outcome # "ok" => (~last.pr_created /\ last.manual_pr_url)

\* C26: an exception raised while a proxied request is served (token refresh,
\* auth injection, forwarding) never leaves the handler: every answer with a
\* 5xx status is one of the JSON error bodies that forward_request writes.
C26_ExceptionsBecomeJson ==
    (last.op = "forward" /\ last.status >= 500) =>
        last.body \in {{"upstream timeout"}, {"upstream connection failed"},
                       GenericBody}

\* C27: CredentialStore.get and list_services answer from the file as it is
\* now, when it is there, whenever its modification time differs from the one
\* last loaded:
\* after them the store holds what the file holds, a service added to the
\* file is found and one removed from it is not; and no step changes the
\* loaded services while the modification time is the one last loaded.
C27_ReloadOnChange ==
    /\ [](file.exists =>
          /\ last.op \in {"get_credential", "list"} =>
                (credentials = load(file) /\ last_mtime = file_mtime)
          /\ last.op = "get_credential" =>
                (last.result <=> last.service \in load(file))
          /\ last.op = "list" =>
                last.services_in.v = load(file) \cup {"git"})
    /\ [][file_mtime = last_mtime => credentials' = credentials]_vars

\* get found the service custom, which the file gained when it lost gmail.
C27_Witness ==
    /\ last.op = "get_credential"
    /\ last.service = "custom"
    /\ last.result
    /\ "gmail" \notin credentials
    /\ file_mtime > 1
    /\ file.exists

\* C28: when an entry of the file is not an object, or its type cannot be
\* resolved, reload skips that entry and loads the others: after get or
\* list_services every entry that is an object, has a base URL of its own or
\* of a known service, and has a supported type, given, known or inferred from
\* its keys, is in the store, and the skipped ones are not.
C28_PartialConfigUsable ==
    (last.op \in {"get_credential", "list"} /\ file.exists /\ file.json) =>
        \A name \in DOMAIN file.entries :
            LET e == file.entries[name]
                known == name \in {"bsky", "github_api", "gmail", "gcal", "gdrive"}
                supported == {"atproto", "bearer", "header", "query", "oauth2"}
                usable ==
                    /\ e.dict
                    /\ e.base_url \/ known
                    /\ \/ e.type \in supported
                       \/ e.type = "" /\ (known \/ e.keys # {})
            IN  /\ name \in credentials <=> usable
                /\ (last.op = "get_credential" /\ last.service = name) =>
                      (last.result <=> usable)

\* get found gmail in a file whose bsky entry is not an object and whose
\* custom entry has a type that is not supported.
C28_Witness ==
    /\ last.op = "get_credential"
    /\ last.service = "gmail"
    /\ last.result
    /\ file.exists
    /\ file.json
    /\ DOMAIN file.entries = {"bsky", "gmail", "custom"}
    /\ ~file.entries["bsky"].dict
    /\ file.entries["custom"].type = "bogus"

\* C30: SessionStore operations are atomic under concurrent threads calling
\* get, has_service, cleanup_expired and revoke on one session: the session is
\* removed at most once, its expiry callback fires at most once, at most one
\* revoke returns true, and no get that is called after a revoke of the
\* session has returned true obtains the session.
C30_StoreOpsAtomic ==
    /\ thr.removals <= 1
    /\ expired_cb[SidNames[1]] <= 1
    /\ Cardinality({t \in 1..MaxThreads :
           thr.pc[t] = "done" /\ thr.op[t] = "revoke" /\ thr.ret[t]}) <= 1
    /\ \A t \in 1..MaxThreads :
         (thr.pc[t] = "done" /\ thr.op[t] \in {"get", "has_service"}
            /\ thr.after[t]) => ~thr.ret[t]

\* Two revokes have returned, one of them true, and a get called after that
\* has returned as well.
C30_Witness ==
    \E a, b, c \in 1..MaxThreads :
        /\ thr.pc[a] = "done" /\ thr.op[a] = "revoke" /\ thr.ret[a]
        /\ thr.pc[b] = "done" /\ thr.op[b] = "revoke" /\ ~thr.ret[b]
        /\ thr.pc[c] = "done" /\ thr.op[c] = "get" /\ thr.after[c]

\* A sweep and a get have both returned after the session expired, and the
\* callback has fired.
C30_WitnessExpiry ==
    \E a, b \in 1..MaxThreads :
        /\ thr.pc[a] = "done" /\ thr.op[a] = "cleanup_expired"
        /\ thr.pc[b] = "done" /\ thr.op[b] = "get" /\ ~thr.ret[b]
        /\ expired_cb[SidNames[1]] = 1

\* C34: validate_push_command_safety returns (False, a reason naming the
\* argument) exactly when some argument of the command list equals one of
\* --force, -f, --force-with-lease, --delete, --mirror, --force-if-includes,
\* or starts with a colon and is longer than one character; otherwise,
\* including for a lone ":", it returns (True, "").
C34_PushCommandSafety ==
    last.op = "push_cmd" =>
        LET dangerous(a) ==
                \/ a \in {<<"-","-","f","o","r","c","e">>, <<"-","f">>,
                          <<"-","-","f","o","r","c","e","-","w","i","t","h","-","l","e","a","s","e">>,
                          <<"-","-","d","e","l","e","t","e">>,
                          <<"-","-","m","i","r","r","o","r">>,
                          <<"-","-","f","o","r","c","e","-","i","f","-","i","n","c","l","u","d","e","s">>}
                \/ (Len(a) > 1 /\ a[1] = ":")
            bad == \E i \in 1..Len(last.cmd) : dangerous(last.cmd[i])
        IN  /\ last.result = ~bad
            /\ ~last.result =>
                 /\ last.reason # ""
                 /\ \E i \in 1..Len(last.cmd) :
                       last.cmd[i] = last.arg /\ dangerous(last.arg)
            /\ last.result => last.reason = "" /\ last.arg = <<>>

\* A command with the lone ":" among its arguments has been found safe.
C34_Witness ==
    /\ last.op = "push_cmd"
    /\ \E i \in 1..Len(last.cmd) : last.cmd[i] = <<":">>
    /\ last.result

\* C33: the credential type of a config entry is resolved in a fixed
\* precedence: an explicit type field wins; otherwise the type of a known
\* service name is used; otherwise it is inferred from the fields present
\* (identifier or app_password gives atproto, else refresh_token gives oauth2,
\* else token or credential gives bearer); an entry whose type cannot be
\* resolved, whose type is unknown, or which has no base_url and is not a
\* known service is skipped.
C33_TypePrecedence ==
    (last.op = "parse" /\ last.config.dict) =>
        LET name == last.service
            config == last.config
            known == name \in {"bsky", "github_api", "gmail", "gcal", "gdrive"}
            resolved ==
                IF config.type # "" THEN config.type
                ELSE IF name = "bsky" THEN "atproto"
                ELSE IF name = "github_api" THEN "bearer"
                ELSE IF known THEN "oauth2"
                ELSE IF "identifier" \in config.keys \/ "app_password" \in config.keys
                THEN "atproto"
                ELSE IF "refresh_token" \in config.keys THEN "oauth2"
                ELSE IF "token" \in config.keys \/ "credential" \in config.keys
                THEN "bearer"
                ELSE "none"
            skipped ==
                \/ resolved \notin {"atproto", "bearer", "header", "query", "oauth2"}
                \/ (~config.base_url /\ ~known)
        IN  /\ last.result = ~skipped
            /\ last.result => last.saw = resolved

\* The entry of a known service that names another type has been loaded with
\* the type it names.
C33_Witness ==
    /\ last.op = "parse"
    /\ last.service = "bsky"
    /\ last.config.type = "bearer"
    /\ last.config.keys = {"identifier", "app_password"}
    /\ last.result
    /\ last.saw = "bearer"

\* C32: inject_auth never mutates the headers mapping it is given and
\* returns: for bearer, Authorization: Bearer <credential>; for header,
\* <auth_header, default X-API-Key>: <credential>; for query, the URL with
\* <query_param, default api_key>=<credential> appended (with & when the URL
\* already contains ?, else with ?); for atproto and oauth2, Authorization:
\* Bearer <token>, or the headers as given when no token can be obtained.
\* Every other header, and the URL for all types but query, is returned
\* unchanged. A credential without a credential value leaves both as given.
C32_InjectAuthByType ==
    last.op = "inject" =>
        LET c == last.credential
            given == last.headers
            out == last.up_headers
            Bearer == <<"B","e","a","r","e","r"," ">>
            written ==
                CASE c.service_type \in {"atproto", "oauth2"} ->
                       IF last.inject = "token"
                       THEN {<<"Authorization", Bearer \o <<"t","o","k">>>>} ELSE {}
                  [] c.service_type = "bearer" /\ c.credential # <<>> ->
                       {<<"Authorization", Bearer \o c.credential>>}
                  [] c.service_type = "header" /\ c.credential # <<>> ->
                       {<<IF c.auth_header = "" THEN "X-API-Key" ELSE c.auth_header,
                          c.credential>>}
                  [] OTHER -> {}
            names == {w[1] : w \in written}
            appended ==
                IF c.service_type = "query" /\ c.credential # <<>>
                THEN (IF \E i \in 1..Len(last.path) : last.path[i] = "?"
                      THEN <<"&">> ELSE <<"?">>)
                     \o (IF c.query_param = <<>> THEN <<"a","p","i","_","k","e","y">>
                         ELSE c.query_param)
                     \o <<"=">> \o c.credential
                ELSE <<>>
        IN  /\ last.result
            /\ out = {h \in given : h[1] \notin names} \cup written
            /\ last.url = last.path \o appended

C35_WitnessAccepted ==
    /\ last.op = "forward"
    /\ last.status = 200
    /\ last.injected
    /\ cred.net = 1
    /\ cred.cache # NoCache

\* C38: when a reload is triggered and the credentials file does not parse as
\* JSON, all previously loaded credentials are dropped (every get returns
\* not_found afterwards) and, the new modification time being recorded, no
\* further reload is attempted until the modification time changes again;
\* when the file cannot be stat-ed at all, no reload happens and the
\* previously loaded credentials stay in place.
C38_BadJsonDropsMissingKeeps ==
    /\ []((last.op = "get_credential" /\ file.exists /\ ~file.json) =>
            /\ ~last.result
            /\ credentials = {}
            /\ last_mtime = file_mtime)
    /\ [][(file.exists /\ file_mtime = last_mtime) =>
            (credentials' = credentials /\ last_mtime' = last_mtime)]_vars
    /\ [][~file.exists =>
            (credentials' = credentials /\ last_mtime' = last_mtime)]_vars

\* A get has found nothing for bsky, loaded at the start, after the file was
\* rewritten with text that is not JSON.
C38_Witness ==
    /\ last.op = "get_credential"
    /\ last.service = "bsky"
    /\ file.exists
    /\ ~file.json
    /\ ~last.result
    /\ credentials = {}

\* A get has returned the credential of bsky while the file, rewritten since
\* it was loaded, is not there.
C38_WitnessMissing ==
    /\ last.op = "get_credential"
    /\ last.service = "bsky"
    /\ ~file.exists
    /\ file_mtime # last_mtime
    /\ last.result

C39_CloneInsideTempDir ==
    (last.op \in {"fetch", "push"} /\ "clone" \in last.ran) =>
        /\ Len(last.segs) >= Len(last.prefix)
        /\ SubSeq(last.segs, 1, Len(last.prefix)) = last.prefix

\* C40: the repo URL and branch strings placed on git command lines by
\* /git/fetch-bundle and /git/push-bundle are exactly the strings the
\* validators accepted: none of them starts or ends with a character that the
\* validators trimmed (whitespace, newline, carriage return).
C40_ArgsAsValidated ==
    (last.op \in {"fetch", "push"}) =>
        \A i \in 1..Len(last.cmd) :
            /\ last.cmd[i] = strip(last.cmd[i])
            /\ \A k \in 1..Len(last.cmd[i]) : last.cmd[i][k] \notin {"\n", "\r"}

\* C31: locks are per resource, never global: a thread blocked in a
\* token-refresh network call for service A holds only A's token lock, so the
\* locks of the session store, the credential store, the audit log and the
\* credential of a different service B are not held by it and a thread that
\* asks for one of them does not wait for it.
C31_LocksPerResource ==
    \A t \in 1..MaxHandlers :
        thr.pc[t] = "network" =>
            /\ held_by(t) = {lock_of(thr.service[t])}
            /\ \A r \in {"sessions", "store", "audit", "bsky", "gmail"} \ {thr.service[t]} :
                   thr.lock[lock_of(r)].owner # t
            /\ \A u \in (1..MaxHandlers) \ {t} :
                   (wanted(u) # "" /\ thr.pc[u] # "token") =>
                       thr.lock[wanted(u)].owner # t

\* Thread t is still blocked in its token refresh, and a thread that started
\* while t was blocked has looked up its session and its credential, refreshed
\* the token of another service and finished.
C31_Witness ==
    \E t, u \in 1..MaxHandlers :
        /\ thr.pc[t] = "network"
        /\ thr.pc[u] = "done"
        /\ t \in thr.during[u]
        /\ thr.op[u] = "proxy"
        /\ thr.service[u] # thr.service[t]
        /\ thr.calls[u] = 1

\* C36: no interleaving of request-handling threads deadlocks: a thread never
\* waits for a second distinct lock while it holds a lock, the nested
\* acquisitions of get -> _check_reload -> reload are all on the
\* credential-store lock by the thread that owns it, and every handler that
\* started (so every get, list_services and get-token call in it) returns.
C36_NoDeadlock ==
    /\ [](\A t \in 1..MaxHandlers :
             /\ wanted(t) # "" => held_by(t) \subseteq {wanted(t)}
             /\ thr.pc[t] \in {"check", "reload"} =>
                   thr.lock[wanted(t)].owner = t
             /\ \A n \in DOMAIN thr.lock :
                   thr.lock[n].depth > 1 => n = lock_of("store"))
    /\ \A t \in 1..MaxHandlers :
          (thr.pc[t] # "idle") ~> (thr.pc[t] = "done")

\* A thread is three deep in the credential-store lock (get, _check_reload,
\* reload) while the other thread waits for that lock.
C36_Witness ==
    \E t, u \in 1..MaxHandlers :
        /\ thr.lock[lock_of("store")] = [owner |-> t, depth |-> 3]
        /\ thr.pc[t] = "load"
        /\ thr.pc[u] = "get"

\* Both threads have returned after one of them reloaded the credentials and
\* one of them refreshed a token.
C36_WitnessReturned ==
    /\ \A t \in 1..MaxHandlers : thr.pc[t] = "done"
    /\ last_mtime = 2
    /\ \E t \in 1..MaxHandlers : thr.calls[t] = 1

====
